---- MODULE Spec2Model ----
(***************************************************************************)
(* caddy-atc: the routing control plane.                                   *)
(*                                                                         *)
(*   Spec        the reconciler (watcher.Run and its handlers) together    *)
(*               with the container runtime, the proxy container and the   *)
(*               project registry it reads                                 *)
(*   SpecRender  GenerateCaddyfile / WriteCaddyfile on arbitrary tables    *)
(*   SpecStore   config.LoadAndModify / atomicWriteFile under concurrent   *)
(*               writers and an unlocked reader                            *)
(*                                                                         *)
(* Strings the code inspects character by character (hostnames, container  *)
(* names, service names, ports) are sequences of one-character strings.    *)
(***************************************************************************)
EXTENDS Naturals, Integers, Sequences, FiniteSets, TLC

VARIABLES
    \* ---- reconciler (Watcher) ----
    pc,          \* position of the Run goroutine
    routes,      \* w.routes: container id -> Route (ActiveRoutes)
    subscribed,  \* cli.Events has been called
    queue,       \* events delivered by the runtime, not yet received from msgCh
    emitted,     \* number of events the runtime has delivered so far
    ev,          \* the event being handled (or handled last) and what it did
    last,        \* per container: kind of the last table-changing event
    retval,      \* what Run returned
    \* ---- environment of the reconciler ----
    cstate,      \* container runtime: per container "down" | "up" | "dying"
    attached,    \* containers attached to the caddy-atc network
    registry,    \* projects.yml as the reconciler reads it (file content)
    caddyfile,   \* ~/.caddy-atc/caddyfile/Caddyfile (file content)
    gw,          \* proxy container: "absent" | "running" | "zombie"
    cancelled,   \* ctx.Done() is closed
    streamErr,   \* errCh holds an error
    \* ---- project store (LoadAndModify) ----
    spc,         \* per process: position inside LoadAndModify / atomicWriteFile
    files,       \* directory ~/.caddy-atc: file name -> content
    lockHolder,  \* holder of the flock on projects.lock (0: free)
    cfg,         \* per process: the *Config loaded and being modified
    result,      \* per process: what LoadAndModify returned
    observed,    \* what the unlocked reader (config.Load) last read
    \* ---- callers of the route table (ActiveRoutes) ----
    tpc,         \* per caller: position inside the method it is calling
    mu,          \* holder of ActiveRoutes.mu (0: free)
    tloc,        \* per caller: method, arguments and the locals of the method
    tret,        \* per caller: what its last call returned
    tseen,       \* per caller: the tables that existed since its call began
    tcalls,      \* number of calls made so far
    \* ---- calls of the adoption, port-stripping and detection functions ----
    inp,         \* the function called and its arguments
    outp,        \* what it returned
    \* ---- singleton guard (watcher.pid and the process table) ----
    procs,       \* process table: per identifier, the process that holds it
    pidfile,     \* ~/.caddy-atc/watcher.pid (file content)
    cli          \* the down / status invocation: position and locals

watcherVars == <<pc, routes, subscribed, queue, emitted, ev, last, retval>>
envVars     == <<cstate, attached, registry, caddyfile, gw, cancelled, streamErr>>
storeVars   == <<spc, files, lockHolder, cfg, result, observed>>
tableVars   == <<tpc, mu, tloc, tret, tseen, tcalls>>
callVars    == <<inp, outp>>
guardVars   == <<procs, pidfile, cli>>
otherVars   == <<tableVars, callVars, guardVars>>
vars        == <<watcherVars, envVars, storeVars, otherVars>>

----------------------------------------------------------------------------
(* Bounds of the model *)

MaxEvents == 3      \* events the runtime delivers in one run
MaxRoutes == 2      \* routes in a table handed to the renderer
NumProcs  == 2      \* concurrent LoadAndModify invocations
NumCallers == 3     \* goroutines, each calling one method of one ActiveRoutes
MaxServices == 2    \* services in a list handed to FindPrimaryService
MaxPorts == 2       \* declared ports of a container handed to DetectHTTPPort
MaxKeep == 2        \* service names in the keep-set handed to StripPorts

----------------------------------------------------------------------------
(* Characters and the validator predicates (package config) *)

Digits  == {"0", "1", "2", "3", "4", "5", "6", "7", "8", "9"}
Letters == {"a", "b", "c", "d", "e", "f", "g", "h", "i", "j", "k", "l", "m", "n", "o", "p", "q", "r", "s", "t", "u", "v", "w", "x", "y", "z",
            "A", "B", "C", "D", "E", "F", "G", "H", "I", "J", "K", "L", "M", "N", "O", "P", "Q", "R", "S", "T", "U", "V", "W", "X", "Y", "Z"}
Alnum   == Digits \cup Letters

\* validName: ^[a-zA-Z0-9][a-zA-Z0-9._-]*$
validName(s) ==
    /\ Len(s) >= 1
    /\ s[1] \in Alnum
    /\ \A i \in 1..Len(s) : s[i] \in Alnum \cup {".", "_", "-"}

MaxHostnameLen == 253

ValidateHostname(s) ==
    /\ s # <<>>
    /\ Len(s) <= MaxHostnameLen
    /\ validName(s)

ValidateContainerName(s) ==
    /\ s # <<>>
    /\ validName(s)

ValidatePort(s) ==
    /\ s # <<>>
    /\ \A i \in 1..Len(s) : s[i] \in Digits

\* strings.TrimPrefix(s, "/")
TrimSlash(s) == IF Len(s) >= 1 /\ s[1] = "/" THEN SubSeq(s, 2, Len(s)) ELSE s

----------------------------------------------------------------------------
(* Port detector (package watcher, detect.go) *)

\* Known HTTP ports in priority order.
httpPorts ==
    << <<"8", "0">>,
       <<"4", "4", "3">>,
       <<"3", "0", "0", "0">>,
       <<"3", "0", "0", "1">>,
       <<"4", "0", "0", "0">>,
       <<"5", "0", "0", "0">>,
       <<"5", "1", "7", "3">>,
       <<"8", "0", "0", "0">>,
       <<"8", "0", "8", "0">>,
       <<"8", "4", "4", "3">> >>

\* Known non-HTTP ports to skip.
skipPorts ==
    { <<"5", "4", "3", "2">>,
      <<"3", "3", "0", "6">>,
      <<"2", "7", "0", "1", "7">>,
      <<"6", "3", "7", "9">>,
      <<"5", "6", "7", "2">>,
      <<"1", "5", "6", "7", "2">>,
      <<"9", "2", "0", "0">>,
      <<"9", "3", "0", "0">>,
      <<"2", "1", "8", "1">>,
      <<"9", "0", "9", "2">>,
      <<"1", "1", "2", "1", "1">> }

\* Known non-HTTP service names to skip.
skipServices ==
    { <<"p", "o", "s", "t", "g", "r", "e", "s">>,
      <<"p", "o", "s", "t", "g", "r", "e", "s", "q", "l">>,
      <<"m", "y", "s", "q", "l">>,
      <<"m", "a", "r", "i", "a", "d", "b">>,
      <<"m", "o", "n", "g", "o">>,
      <<"m", "o", "n", "g", "o", "d", "b">>,
      <<"r", "e", "d", "i", "s">>,
      <<"m", "e", "m", "c", "a", "c", "h", "e", "d">>,
      <<"r", "a", "b", "b", "i", "t", "m", "q">>,
      <<"e", "l", "a", "s", "t", "i", "c", "s", "e", "a", "r", "c", "h">>,
      <<"z", "o", "o", "k", "e", "e", "p", "e", "r">>,
      <<"k", "a", "f", "k", "a">>,
      <<"m", "a", "i", "l", "h", "o", "g">>,
      <<"m", "a", "i", "l", "p", "i", "t">>,
      <<"m", "i", "n", "i", "o">> }

DigitSeq == <<"0", "1", "2", "3", "4", "5", "6", "7", "8", "9">>
DigitVal(c) == (CHOOSE i \in 1..10 : DigitSeq[i] = c) - 1

RECURSIVE NatVal(_)
NatVal(s) == IF s = <<>> THEN 0
             ELSE NatVal(SubSeq(s, 1, Len(s) - 1)) * 10 + DigitVal(s[Len(s)])

\* strconv.Atoi: an optional sign followed by at least one decimal digit.
AtoiBody(s) == IF Len(s) >= 1 /\ s[1] \in {"+", "-"} THEN SubSeq(s, 2, Len(s)) ELSE s
AtoiOK(s)   == /\ AtoiBody(s) # <<>>
               /\ \A i \in 1..Len(AtoiBody(s)) : AtoiBody(s)[i] \in Digits
AtoiVal(s)  == IF Len(s) >= 1 /\ s[1] = "-" THEN 0 - NatVal(AtoiBody(s))
               ELSE NatVal(AtoiBody(s))

\* nat.Port.Port(): the part of "<port>/<proto>" before the slash.
PortOf(key) ==
    IF \E i \in 1..Len(key) : key[i] = "/"
    THEN SubSeq(key, 1, (CHOOSE i \in 1..Len(key) :
                            key[i] = "/" /\ \A j \in 1..(i - 1) : key[j] # "/") - 1)
    ELSE key

\* The union of the declared (Config.ExposedPorts) and bound
\* (NetworkSettings.Ports) port numbers.
exposedPorts(info) == {PortOf(k) : k \in info.ExposedPorts \cup info.Ports}

\* The lowest-port loop ranges over a map, whose iteration order is not
\* fixed: of the ports that are not in the skip list and that Atoi accepts,
\* the first one met with the lowest number is kept ("" when there is none).
LowestPorts(ports) ==
    LET cand == {p \in ports : p \notin skipPorts /\ AtoiOK(p)}
    IN  IF cand = {} THEN {<<>>}
        ELSE {p \in cand : \A q \in cand : AtoiVal(p) <= AtoiVal(q)}

\* The values DetectHTTPPort can return for a container.
DetectHTTPPorts(info) ==
    IF info.Service \in skipServices THEN {<<>>}
    ELSE IF exposedPorts(info) = {} THEN {<<>>}
    ELSE IF \E i \in 1..Len(httpPorts) : httpPorts[i] \in exposedPorts(info)
         THEN {httpPorts[CHOOSE i \in 1..Len(httpPorts) :
                            /\ httpPorts[i] \in exposedPorts(info)
                            /\ \A j \in 1..(i - 1) : httpPorts[j] \notin exposedPorts(info)]}
    ELSE LowestPorts(exposedPorts(info))

\* DetectHTTPPort for the containers of the catalog, none of which has two
\* ports of the same number.
DetectHTTPPort(info) == CHOOSE p \in DetectHTTPPorts(info) : TRUE

----------------------------------------------------------------------------
(* Project registry (package config): Config, Load, lookup, hostnames *)

\* Project names in the order yaml.Marshal writes map keys (sorted).
ProjectOrder == <<"app", "late", "misc", "zeta">>
ProjectNames == {ProjectOrder[i] : i \in 1..Len(ProjectOrder)}

\* The ProjectConfig stored under each name.
ProjectRecord(name) ==
    CASE name = "app"  -> [ComposeProject |-> "app",
                           Hostname |-> <<"a", ".", "l", "o">>,
                           Services |-> (<<"w", "e", "b">> :> <<"a", ".", "l", "o">>)]
      [] name = "late" -> [ComposeProject |-> "late",
                           Hostname |-> <<"b", ".", "l", "o">>,
                           Services |-> << >>]
      [] OTHER         -> [ComposeProject |-> name,
                           Hostname |-> <<"z", ".", "l", "o">>,
                           Services |-> << >>]

\* yaml.Marshal(Config): the header line and one entry per project, keys sorted.
Marshal(projects) ==
    <<"projects:">> \o SelectSeq(ProjectOrder, LAMBDA n : n \in projects)

\* yaml.Unmarshal: the projects named after the header; an empty document
\* gives a nil map, which Load replaces by an empty one.
Unmarshal(data) ==
    IF data = <<>> THEN {}
    ELSE {data[i] : i \in 2..Len(data)}

NoFile == <<"<absent>">>

\* config.Load: a missing file is an empty registry.
Load(content) == IF content = NoFile THEN {} ELSE Unmarshal(content)

\* Config.FindProjectByComposeProject: the name of a project whose
\* compose_project is composeName, "" when there is none.
FindProjectByComposeProject(projects, composeName) ==
    IF \E n \in projects : ProjectRecord(n).ComposeProject = composeName
    THEN CHOOSE n \in projects : ProjectRecord(n).ComposeProject = composeName
    ELSE ""

\* ProjectConfig.ResolveHostname
ResolveHostname(p, serviceName) ==
    IF serviceName \in DOMAIN p.Services
    THEN p.Services[serviceName]
    ELSE serviceName \o <<".">> \o p.Hostname

----------------------------------------------------------------------------
(* The container runtime: the containers of this model *)

Containers == {"c1", "c2", "c3", "c4", "c5", "c6", "c7"}
GatewayID  == "gw"

\* gateway.ContainerName and gateway.NetworkName
GatewayContainerName == <<"c", "a", "d", "d", "y", "-", "a", "t", "c">>

\* What ContainerInspect returns for each container.
Info(c) ==
    CASE c = "c1" -> [Name |-> <<"/", "w", "1">>, Project |-> "app",
                      Service |-> <<"w", "e", "b">>,
                      ExposedPorts |-> {<<"8", "0", "/", "t", "c", "p">>}, Ports |-> {}]
      [] c = "c2" -> [Name |-> <<"/", "w", "2">>, Project |-> "app",
                      Service |-> <<"w", "e", "b">>,
                      ExposedPorts |-> {<<"9", "9", "9", "9", "/", "t", "c", "p">>, <<"9", "0", "0", "0", "/", "t", "c", "p">>},
                      Ports |-> {}]
      [] c = "c3" -> [Name |-> <<"/", "l", "1">>, Project |-> "late",
                      Service |-> <<"a", "p", "i">>,
                      ExposedPorts |-> {<<"3", "0", "0", "0", "/", "t", "c", "p">>},
                      Ports |-> {<<"8", "0", "/", "t", "c", "p">>}]
      [] c = "c4" -> [Name |-> <<"/", "x", "1">>, Project |-> "app",
                      Service |-> <<"_", "x">>,
                      ExposedPorts |-> {<<"8", "0", "/", "t", "c", "p">>}, Ports |-> {}]
      [] c = "c5" -> [Name |-> <<"/", "r", "1">>, Project |-> "",
                      Service |-> << >>,
                      ExposedPorts |-> {<<"8", "0", "/", "t", "c", "p">>}, Ports |-> {}]
      [] c = "c6" -> [Name |-> <<"/", "d", "1">>, Project |-> "app",
                      Service |-> <<"r", "e", "d", "i", "s">>,
                      ExposedPorts |-> {<<"6", "3", "7", "9", "/", "t", "c", "p">>}, Ports |-> {}]
      [] c = "c7" -> [Name |-> <<"/", "s", "1">>, Project |-> "app",
                      Service |-> <<"w", "e", "b">>,
                      ExposedPorts |-> {<<"+", "8", "1", "/", "t", "c", "p">>}, Ports |-> {}]
      [] OTHER    -> [Name |-> <<"/">> \o GatewayContainerName, Project |-> "",
                      Service |-> << >>,
                      ExposedPorts |-> {<<"8", "0", "/", "t", "c", "p">>, <<"4", "4", "3", "/", "t", "c", "p">>},
                      Ports |-> {}]

\* msg.Actor.Attributes["name"]
EventName(c) == TrimSlash(Info(c).Name)

----------------------------------------------------------------------------
(* Route table (ActiveRoutes) and the renderer (caddyfile.go) *)

Add(table, id, route) ==
    [x \in DOMAIN table \cup {id} |-> IF x = id THEN route ELSE table[x]]

Remove(table, id) == [x \in DOMAIN table \ {id} |-> table[x]]

Get(table, id) == id \in DOMAIN table

EmptyTable == [x \in {} |-> 0]

\* Byte order of the characters used (Go compares strings bytewise).
AsciiOrder == <<" ", "+", "-", ".", "/", "0", "1", "2", "3", "4", "5", "6", "7", "8", "9", ":", ";", "A", "B", "C", "D", "E", "F", "G", "H", "I", "J", "K", "L", "M", "N", "O", "P", "Q", "R", "S", "T", "U", "V", "W", "X", "Y", "Z", "_", "a", "b", "c", "d", "e", "f", "g", "h", "i", "j", "k", "l", "m", "n", "o", "p", "q", "r", "s", "t", "u", "v", "w", "x", "y", "z", "{", "}">>
CharCode(c) == CHOOSE i \in 1..Len(AsciiOrder) : AsciiOrder[i] = c

RECURSIVE StrLess(_, _)
StrLess(a, b) ==
    IF b = <<>> THEN FALSE
    ELSE IF a = <<>> THEN TRUE
    ELSE IF a[1] # b[1] THEN CharCode(a[1]) < CharCode(b[1])
    ELSE StrLess(Tail(a), Tail(b))

\* Sequences over the ids of a table, each id once.
RECURSIVE Perms(_)
Perms(S) ==
    IF S = {} THEN {<<>>}
    ELSE UNION {{<<x>> \o p : p \in Perms(S \ {x})} : x \in S}

\* ActiveRoutes.All: a copy of the routes sorted by hostname ascending.  The
\* order of routes with equal hostnames is not fixed by the sort.
AllSnapshots(table) ==
    {[i \in 1..Len(p) |-> table[p[i]]] :
        p \in {q \in Perms(DOMAIN table) :
                 \A i \in 1..(Len(q) - 1) :
                    ~StrLess(table[q[i + 1]].Hostname, table[q[i]].Hostname)}}

Line(k, a) == [k |-> k, a |-> a]

Preamble ==
    <<Line("{", <<>>), Line("local_certs", <<>>),
      Line("skip_install_trust", <<>>), Line("}", <<>>)>>

Upstream(r) == r.ContainerName \o <<":">> \o r.Port

RouteValid(r) ==
    /\ ValidateHostname(r.Hostname)
    /\ ValidateContainerName(r.ContainerName)
    /\ ValidatePort(r.Port)

\* A renderer that opens a site block for every route of the snapshot.
SiteBlocksPerRoute(snap) ==
    [i \in 1..(4 * Len(snap)) |->
        LET r == snap[(i + 3) \div 4]
        IN  CASE i % 4 = 1 -> Line("site", <<r.Hostname>>)
              [] i % 4 = 2 -> Line("tls internal", <<>>)
              [] i % 4 = 3 -> Line("reverse_proxy", <<Upstream(r)>>)
              [] OTHER     -> Line("}", <<>>)]

\* The site blocks of a snapshot: one block per run of equal hostnames.
RECURSIVE SiteBlocks(_)
SiteBlocks(snap) ==
    IF snap = <<>> THEN <<>>
    ELSE LET h     == snap[1].Hostname
             n     == CHOOSE k \in 1..Len(snap) :
                         /\ \A i \in 1..k : snap[i].Hostname = h
                         /\ (k = Len(snap) \/ snap[k + 1].Hostname # h)
             group == SubSeq(snap, 1, n)
         IN  <<Line("site", <<h>>),
               Line("tls internal", <<>>),
               Line("reverse_proxy", [i \in 1..n |-> Upstream(group[i])]),
               Line("}", <<>>)>>
             \o SiteBlocks(SubSeq(snap, n + 1, Len(snap)))

\* A renderer that revalidates only the route that opens a site block.
EmittedValidHeads(snap) ==
    \A i \in 1..Len(snap) :
        (i = 1 \/ snap[i].Hostname # snap[i - 1].Hostname) => RouteValid(snap[i])

\* The renderer revalidates the hostname of every block and the container
\* name and port of every upstream it emits.
EmittedValid(snap) == \A i \in 1..Len(snap) : RouteValid(snap[i])

\* GenerateCaddyfile on a snapshot: every value is revalidated before it is
\* emitted; any failure aborts the render.
GenerateCaddyfile(snap) ==
    IF ~EmittedValid(snap)
    THEN [err |-> TRUE, text |-> <<>>]
    ELSE [err |-> FALSE, text |-> Preamble \o SiteBlocks(snap)]

----------------------------------------------------------------------------
(* Reconciler: Watcher.Run, handleEvent, handleContainerStart/Stop,        *)
(* scanExisting, connectToNetwork, reloadRoutes                            *)

Event(n, c, a) == [seq |-> n, id |-> c, action |-> a]

\* What the handler of one event has done so far.
Handling(n, c, a, out, fx) ==
    [seq |-> n, id |-> c, action |-> a, out |-> out, fx |-> fx,
     rl |-> "none", ups |-> 0, reloads |-> 0]

\* RPC or file failure injected into one handler.
StartFailures == {"none", "load", "inspect", "attach"}

RouteOf(c, projects) ==
    LET info == Info(c)
        proj == ProjectRecord(FindProjectByComposeProject(projects, info.Project))
    IN  [Hostname      |-> ResolveHostname(proj, info.Service),
         ContainerName |-> TrimSlash(info.Name),
         Port          |-> DetectHTTPPort(info),
         Project       |-> info.Project,
         Service       |-> info.Service]

\* connectToNetwork with the error of its RPCs dropped.
connectToNetworkIgnoresError(c, att, fail) ==
    [ok |-> TRUE, att |-> IF fail = "attach" THEN att ELSE att \cup {c}]

\* connectToNetwork: inspect, return when already connected, else
\* NetworkConnect; it fails when one of its RPCs fails.  The network
\* membership after it.
connectToNetwork(c, att, fail) ==
    IF fail = "attach" THEN [ok |-> FALSE, att |-> att]
    ELSE IF c \in att THEN [ok |-> TRUE, att |-> att]
    ELSE [ok |-> TRUE, att |-> att \cup {c}]

\* handleContainerStart without the lookup among the adopted projects.
StartOutcomeUnadopted(c, content, att, fail) ==
    LET info     == Info(c)
        projects == Load(content)
    IN  IF fail = "load" THEN "load_error"
        ELSE IF fail = "inspect" THEN "inspect_error"
        ELSE IF info.Project = "" THEN "no_label"
        ELSE IF DetectHTTPPort(info) = <<>> THEN "no_port"
        ELSE IF ~ValidateHostname(RouteOf(c, projects).Hostname) THEN "bad_hostname"
        ELSE IF ~ValidateContainerName(TrimSlash(info.Name)) THEN "bad_name"
        ELSE IF ~connectToNetwork(c, att, fail).ok THEN "attach_error"
        ELSE "routed"

\* handleContainerStart up to the insertion: the first check that fails
\* decides; "routed" when the route is added.
StartOutcome(c, content, att, fail) ==
    LET info     == Info(c)
        projects == Load(content)
    IN  IF fail = "load" THEN "load_error"
        ELSE IF fail = "inspect" THEN "inspect_error"
        ELSE IF info.Project = "" THEN "no_label"
        ELSE IF FindProjectByComposeProject(projects, info.Project) = "" THEN "not_adopted"
        ELSE IF DetectHTTPPort(info) = <<>> THEN "no_port"
        ELSE IF ~ValidateHostname(RouteOf(c, projects).Hostname) THEN "bad_hostname"
        ELSE IF ~ValidateContainerName(TrimSlash(info.Name)) THEN "bad_name"
        ELSE IF ~connectToNetwork(c, att, fail).ok THEN "attach_error"
        ELSE "routed"

\* One iteration of the loop of scanExisting.
ScanOutcome(c, projects, att, fail) ==
    LET info == Info(c)
    IN  IF TrimSlash(info.Name) = GatewayContainerName THEN "own_container"
        ELSE IF info.Project = "" THEN "no_label"
        ELSE IF FindProjectByComposeProject(projects, info.Project) = "" THEN "not_adopted"
        ELSE IF fail = "inspect" THEN "inspect_error"
        ELSE IF DetectHTTPPort(info) = <<>> THEN "no_port"
        ELSE IF ~ValidateHostname(RouteOf(c, projects).Hostname) THEN "bad_hostname"
        ELSE IF ~ValidateContainerName(TrimSlash(info.Name)) THEN "bad_name"
        ELSE IF ~connectToNetwork(c, att, fail).ok THEN "attach_error"
        ELSE "routed"

\* Run with handlers started as goroutines: a receive while a handler runs.
LoopReadyConcurrent == subscribed

\* Run receives from msgCh only between handlers: handleEvent is a plain call.
LoopReady == pc = "select" /\ subscribed

\* A handler whose error ends the watcher.
AfterErrorExit == "returned"

\* A handler that fails logs the error and returns to the loop of Run; so
\* does Run when scanExisting fails.
AfterError == "select"

\* An error path that takes the route of the event back out of the table.
OnReloadErrorRollback(table, e) ==
    IF e.out = "routed" THEN Remove(table, e.id) ELSE table

\* The callers of reloadRoutes log its error; the table stays as mutated.
OnReloadError(table, e) == table

\* Containers the runtime lists as running (ContainerList).
Listed == {c \in Containers : cstate[c] = "up"}
              \cup (IF gw = "absent" THEN {} ELSE {GatewayID})

\* scanExisting calling reloadRoutes whatever the table holds.
ScanReloadsAlways(table) == TRUE

\* scanExisting: w.routes.Len() > 0 decides whether reloadRoutes is called.
ScanReloads(table) == table # EmptyTable

\* A listed container that would have been routed was skipped because its
\* inspect or attach RPC failed.
ScanSkipped(projects, att, fail) ==
    \E c \in DOMAIN fail :
        /\ ScanOutcome(c, projects, att, "none") = "routed"
        /\ ScanOutcome(c, projects, att, fail[c]) # "routed"

\* scanExisting up to its reloadRoutes call.
ScanExisting ==
    /\ pc = "scan"
    /\ \E pre \in {"none", "load", "list"} :
       \E fail \in [Listed -> {"none", "inspect", "attach"}] :
          LET projects == Load(registry)
              routed   == IF pre # "none" THEN {}
                          ELSE {c \in Listed :
                                  ScanOutcome(c, projects, attached, fail[c]) = "routed"}
          IN  /\ routes' = [c \in routed |-> RouteOf(c, projects)]
              /\ attached' = UNION ({attached} \cup
                     {connectToNetwork(c, attached, fail[c]).att : c \in routed})
              /\ last' = [c \in Containers |-> IF c \in routed THEN "start" ELSE last[c]]
              /\ ev' = Handling(0, "", "scan",
                                IF pre # "none" THEN "scan_error"
                                ELSE IF ScanSkipped(projects, attached, fail)
                                THEN "scan_partial" ELSE "scanned",
                                IF routed # {} THEN {"table"} ELSE {})
              /\ pc' = IF ScanReloads(routes') THEN "write"
                       ELSE IF pre # "none" THEN AfterError ELSE "select"
    /\ UNCHANGED <<subscribed, queue, emitted, retval>>
    /\ UNCHANGED <<cstate, registry, caddyfile, gw, cancelled, streamErr>>
    /\ UNCHANGED <<storeVars, otherVars>>

\* cli.Events: from here on the runtime's events reach msgCh.
Subscribe ==
    /\ pc = "select"
    /\ ~subscribed
    /\ subscribed' = TRUE
    /\ UNCHANGED <<pc, routes, queue, emitted, ev, last, retval>>
    /\ UNCHANGED envVars
    /\ UNCHANGED <<storeVars, otherVars>>

\* handleEvent: events of the proxy's own container are skipped.
SkipOwnContainer ==
    /\ LoopReady
    /\ queue # <<>>
    /\ EventName(Head(queue).id) = GatewayContainerName
    /\ queue' = Tail(queue)
    /\ ev' = Handling(Head(queue).seq, Head(queue).id, Head(queue).action,
                      "own_container", {})
    /\ UNCHANGED <<pc, routes, subscribed, emitted, last, retval>>
    /\ UNCHANGED envVars
    /\ UNCHANGED <<storeVars, otherVars>>

\* The entry predicate of a start event, as the state machine of the
\* reconciler states it.
EntryPredicate(c, content, attachOK) ==
    /\ Info(c).Project # ""
    /\ \E n \in Load(content) : ProjectRecord(n).ComposeProject = Info(c).Project
    /\ DetectHTTPPort(Info(c)) # <<>>
    /\ ValidateHostname(RouteOf(c, Load(content)).Hostname)
    /\ ValidateContainerName(TrimSlash(Info(c).Name))
    /\ attachOK

\* projects.yml when the reconciler starts.
StartupRegistry == Marshal({"app"})

\* A handler that keeps the registry it read at startup.
RegistryAtStartup == StartupRegistry

\* handleContainerStart begins with config.Load(): the registry file as it
\* is when the event is handled.
RegistryAtEvent == registry

HandleContainerStart ==
    /\ LoopReady
    /\ queue # <<>>
    /\ EventName(Head(queue).id) # GatewayContainerName
    /\ Head(queue).action = "start"
    /\ \E fail \in StartFailures :
          LET c   == Head(queue).id
              out == StartOutcome(c, RegistryAtEvent, attached, fail)
          IN  /\ routes' = IF out = "routed"
                           THEN Add(routes, c, RouteOf(c, Load(RegistryAtEvent)))
                           ELSE routes
              /\ attached' = IF out = "routed"
                             THEN connectToNetwork(c, attached, fail).att
                             ELSE attached
              /\ pc' = IF out = "routed" THEN "write"
                       ELSE IF out \in {"load_error", "inspect_error", "attach_error"}
                       THEN AfterError
                       ELSE "select"
              /\ ev' = Handling(Head(queue).seq, c, "start", out,
                                IF out = "routed" THEN {"table"} ELSE {})
              /\ last' = IF /\ fail \notin {"load", "inspect"}
                            /\ EntryPredicate(c, registry, fail # "attach")
                         THEN [last EXCEPT ![c] = "start"]
                         ELSE last
    /\ queue' = Tail(queue)
    /\ UNCHANGED <<subscribed, emitted, retval>>
    /\ UNCHANGED <<cstate, registry, caddyfile, gw, cancelled, streamErr>>
    /\ UNCHANGED <<storeVars, otherVars>>

\* handleContainerStop calling reloadRoutes for every stop and die event.
AfterStopReloads(ok) == "write"

\* handleContainerStop: it returns when the table has no entry for the
\* container, else removes the entry and calls reloadRoutes.
AfterStop(ok) == IF ok THEN "write" ELSE "select"

HandleContainerStop ==
    /\ LoopReady
    /\ queue # <<>>
    /\ EventName(Head(queue).id) # GatewayContainerName
    /\ Head(queue).action \in {"stop", "die"}
    /\ LET c  == Head(queue).id
           ok == Get(routes, c)
       IN  /\ routes' = IF ok THEN Remove(routes, c) ELSE routes
           /\ pc' = AfterStop(ok)
           /\ ev' = Handling(Head(queue).seq, c, Head(queue).action,
                             IF ok THEN "removed" ELSE "not_routed",
                             IF ok THEN {"table"} ELSE {})
           /\ last' = IF ok THEN [last EXCEPT ![c] = "stop"] ELSE last
    /\ queue' = Tail(queue)
    /\ UNCHANGED <<subscribed, emitted, retval>>
    /\ UNCHANGED envVars
    /\ UNCHANGED <<storeVars, otherVars>>

\* reloadRoutes, first step: WriteCaddyfile renders the table and replaces
\* the file by temp file and rename.
WriteCaddyfile ==
    /\ pc = "write"
    /\ \E snap \in AllSnapshots(routes) : \E ok \in BOOLEAN :
          LET g == GenerateCaddyfile(snap)
          IN  IF g.err
              THEN /\ pc' = AfterError
                   /\ ev' = [ev EXCEPT !.rl = "render_failed"]
                   /\ routes' = OnReloadError(routes, ev)
                   /\ UNCHANGED caddyfile
              ELSE IF ~ok
              THEN /\ pc' = AfterError
                   /\ ev' = [ev EXCEPT !.rl = "write_failed",
                                       !.fx = @ \cup {"render"}]
                   /\ routes' = OnReloadError(routes, ev)
                   /\ UNCHANGED caddyfile
              ELSE /\ pc' = "check"
                   /\ ev' = [ev EXCEPT !.fx = @ \cup {"render", "install"}]
                   /\ caddyfile' = g.text
                   /\ UNCHANGED routes
    /\ UNCHANGED <<subscribed, queue, emitted, last, retval>>
    /\ UNCHANGED <<cstate, attached, registry, gw, cancelled, streamErr>>
    /\ UNCHANGED <<storeVars, otherVars>>

\* gateway.IsRunning: what the runtime reports for the proxy container.
IsRunning == gw # "absent"

\* reloadRoutes with the reload dispatched whatever IsRunning reported.
AfterCheckSkipsUp(running) == "reload"

\* reloadRoutes after gateway.IsRunning: the reload when the proxy was
\* reported running, gateway.Up first when it was not.
AfterCheck(running) == IF running THEN "reload" ELSE "up"

\* reloadRoutes: the check before the reload.
CheckGateway ==
    /\ pc = "check"
    /\ \E ok \in BOOLEAN :
          IF ~ok
          THEN /\ pc' = AfterError
               /\ ev' = [ev EXCEPT !.rl = "check_failed"]
               /\ routes' = OnReloadError(routes, ev)
          ELSE /\ pc' = AfterCheck(IsRunning)
               /\ UNCHANGED <<ev, routes>>
    /\ UNCHANGED <<subscribed, queue, emitted, last, retval>>
    /\ UNCHANGED envVars
    /\ UNCHANGED <<storeVars, otherVars>>

\* reloadRoutes: gateway.Up when the proxy was reported not running, then
\* the pause of 2 seconds, which ctx.Done() cuts short.
GatewayUp ==
    /\ pc = "up"
    /\ \E ok \in BOOLEAN :
          IF ~ok
          THEN /\ pc' = AfterError
               /\ ev' = [ev EXCEPT !.rl = "up_failed", !.ups = @ + 1]
               /\ routes' = OnReloadError(routes, ev)
               /\ UNCHANGED gw
          ELSE /\ gw' = IF gw = "absent" THEN "running" ELSE gw
               /\ \/ /\ pc' = "reload"
                     /\ ev' = [ev EXCEPT !.ups = @ + 1, !.fx = @ \cup {"up"}]
                     /\ UNCHANGED routes
                  \/ /\ cancelled
                     /\ pc' = AfterError
                     /\ ev' = [ev EXCEPT !.ups = @ + 1, !.fx = @ \cup {"up"},
                                         !.rl = "cancelled"]
                     /\ routes' = OnReloadError(routes, ev)
    /\ UNCHANGED <<subscribed, queue, emitted, last, retval>>
    /\ UNCHANGED <<cstate, attached, registry, caddyfile, cancelled, streamErr>>
    /\ UNCHANGED <<storeVars, otherVars>>

\* reloadRoutes, last step: ReloadCaddy, dispatched once.
ReloadCaddy ==
    /\ pc = "reload"
    /\ \E ok \in BOOLEAN :
          IF ok /\ gw = "running"
          THEN /\ ev' = [ev EXCEPT !.rl = "ok", !.reloads = @ + 1,
                                   !.fx = @ \cup {"reload"}]
               /\ pc' = "select"
               /\ UNCHANGED routes
          ELSE /\ ev' = [ev EXCEPT !.rl = "reload_failed", !.reloads = @ + 1,
                                   !.fx = @ \cup {"reload"}]
               /\ pc' = AfterError
               /\ routes' = OnReloadError(routes, ev)
    /\ UNCHANGED <<subscribed, queue, emitted, last, retval>>
    /\ UNCHANGED <<cstate, attached, registry, caddyfile, gw, cancelled, streamErr>>
    /\ UNCHANGED <<storeVars, otherVars>>

\* Run: case <-ctx.Done()
RunCancelled ==
    /\ LoopReady
    /\ cancelled
    /\ pc' = "returned"
    /\ retval' = "nil"
    /\ UNCHANGED <<routes, subscribed, queue, emitted, ev, last>>
    /\ UNCHANGED envVars
    /\ UNCHANGED <<storeVars, otherVars>>

\* Run: case err := <-errCh with a non-nil error
RunStreamError ==
    /\ LoopReady
    /\ streamErr
    /\ pc' = "returned"
    /\ retval' = "error"
    /\ UNCHANGED <<routes, subscribed, queue, emitted, ev, last>>
    /\ UNCHANGED envVars
    /\ UNCHANGED <<storeVars, otherVars>>

----------------------------------------------------------------------------
(* Environment of the reconciler: runtime, proxy container, adopt/unadopt, *)
(* cancellation                                                            *)

\* The environment is observed from the moment the reconciler has listed the
\* running containers until Run returns.
Running == pc \notin {"scan", "returned"}

\* The runtime produces events; they reach msgCh once Events was called and
\* until the stream fails.
Emit(evs) ==
    /\ emitted + Len(evs) <= MaxEvents
    /\ emitted' = emitted + Len(evs)
    /\ queue' = IF subscribed /\ ~streamErr
                THEN queue \o [i \in 1..Len(evs) |->
                                 Event(emitted + i, evs[i][1], evs[i][2])]
                ELSE queue

ContainerStarts(c) ==
    /\ Running
    /\ cstate[c] = "down"
    /\ cstate' = [cstate EXCEPT ![c] = "up"]
    /\ Emit(<< <<c, "start">> >>)
    /\ UNCHANGED <<pc, routes, subscribed, ev, last, retval>>
    /\ UNCHANGED <<attached, registry, caddyfile, gw, cancelled, streamErr>>
    /\ UNCHANGED <<storeVars, otherVars>>

\* docker stop: the runtime reports die, then stop.
ContainerStops(c) ==
    /\ Running
    /\ cstate[c] = "up"
    /\ cstate' = [cstate EXCEPT ![c] = "down"]
    /\ Emit(<< <<c, "die">>, <<c, "stop">> >>)
    /\ UNCHANGED <<pc, routes, subscribed, ev, last, retval>>
    /\ UNCHANGED <<attached, registry, caddyfile, gw, cancelled, streamErr>>
    /\ UNCHANGED <<storeVars, otherVars>>

\* The container's process exits by itself: the runtime reports die only.
ContainerDies(c) ==
    /\ Running
    /\ cstate[c] = "up"
    /\ cstate' = [cstate EXCEPT ![c] = "down"]
    /\ Emit(<< <<c, "die">> >>)
    /\ UNCHANGED <<pc, routes, subscribed, ev, last, retval>>
    /\ UNCHANGED <<attached, registry, caddyfile, gw, cancelled, streamErr>>
    /\ UNCHANGED <<storeVars, otherVars>>

\* The proxy container is started or stopped from outside (caddy-atc up / down).
GatewayChanges ==
    /\ Running
    /\ \/ /\ gw = "absent"
          /\ gw' = "running"
          /\ Emit(<< <<GatewayID, "start">> >>)
       \/ /\ gw # "absent"
          /\ gw' = "absent"
          /\ Emit(<< <<GatewayID, "die">> >>)
    /\ UNCHANGED <<pc, routes, subscribed, ev, last, retval>>
    /\ UNCHANGED <<cstate, attached, registry, caddyfile, cancelled, streamErr>>
    /\ UNCHANGED <<storeVars, otherVars>>

\* Host sleep: the runtime keeps reporting the proxy as running, exec fails.
HostSleeps ==
    /\ Running
    /\ gw = "running"
    /\ gw' = "zombie"
    /\ UNCHANGED watcherVars
    /\ UNCHANGED <<cstate, attached, registry, caddyfile, cancelled, streamErr>>
    /\ UNCHANGED <<storeVars, otherVars>>

\* Another process adopts or unadopts the project "late".
RegistryChanges ==
    /\ Running
    /\ \E c \in Containers : cstate[c] # "none" /\ Info(c).Project = "late"
    /\ registry' = IF "late" \in Load(registry)
                   THEN Marshal(Load(registry) \ {"late"})
                   ELSE Marshal(Load(registry) \cup {"late"})
    /\ UNCHANGED watcherVars
    /\ UNCHANGED <<cstate, attached, caddyfile, gw, cancelled, streamErr>>
    /\ UNCHANGED <<storeVars, otherVars>>

\* SIGINT / SIGTERM
Cancel ==
    /\ Running
    /\ ~cancelled
    /\ cancelled' = TRUE
    /\ UNCHANGED watcherVars
    /\ UNCHANGED <<cstate, attached, registry, caddyfile, gw, streamErr>>
    /\ UNCHANGED <<storeVars, otherVars>>

\* The event stream breaks.
StreamFails ==
    /\ Running
    /\ subscribed
    /\ ~streamErr
    /\ streamErr' = TRUE
    /\ UNCHANGED watcherVars
    /\ UNCHANGED <<cstate, attached, registry, caddyfile, gw, cancelled>>
    /\ UNCHANGED <<storeVars, otherVars>>

----------------------------------------------------------------------------
(* Specification of the reconciler *)

\* A configuration file left behind by an earlier run.
StaleCaddyfile ==
    Preamble \o SiteBlocks(<<[Hostname |-> <<"o", "l", "d">>,
                              ContainerName |-> <<"o", "1">>,
                              Port |-> <<"8", "0">>,
                              Project |-> "old", Service |-> <<"o">>]>>)

\* The hosts of this model: the containers that exist, those already running
\* when the reconciler starts, and the state of the proxy container.
Worlds ==
    {[exist |-> {"c1", "c2"}, up |-> {"c1"}, gw |-> "running"],
     [exist |-> {"c1", "c3"}, up |-> {}, gw |-> "absent"],
     [exist |-> {"c1", "c4"}, up |-> {"c1", "c4"}, gw |-> "absent"],
     [exist |-> {"c4", "c5", "c6"}, up |-> {"c5"}, gw |-> "running"],
     [exist |-> {"c1", "c7"}, up |-> {}, gw |-> "running"]}

\* ProjectsPath, and the names os.CreateTemp gives the temporary files of
\* the invocations (one fresh name per call).
TargetPath == "projects.yml"
TempNames  == <<"projects.yml.tmp.1", "projects.yml.tmp.2", "projects.yml.tmp.3", "projects.yml.tmp.4">>

\* A writer that opens the target itself for writing.
InPlacePath(p) == TargetPath

\* os.CreateTemp(dir, base + ".tmp.*"): a sibling of the target.
TempPath(p) == TempNames[p]

StoreFiles == {TargetPath} \cup {TempNames[p] : p \in 1..NumProcs}

\* No caller of the route table, no call of a function.
OthersIdle ==
    /\ tpc = <<>>
    /\ mu = 0
    /\ tloc = <<>>
    /\ tret = <<>>
    /\ tseen = <<>>
    /\ tcalls = 0
    /\ inp = [f |-> "none"]
    /\ outp = [f |-> "none"]

\* No watcher process, no PID file, no down or status invocation.
GuardIdle ==
    /\ procs = <<>>
    /\ pidfile = NoFile
    /\ cli = [f |-> "none"]

StoreIdle ==
    /\ spc = [p \in 1..NumProcs |-> "idle"]
    /\ files = [f \in StoreFiles |-> NoFile]
    /\ lockHolder = 0
    /\ cfg = [p \in 1..NumProcs |-> {}]
    /\ result = [p \in 1..NumProcs |-> "none"]
    /\ observed = NoFile

Init ==
    /\ pc = "scan"
    /\ routes = EmptyTable
    /\ subscribed = FALSE
    /\ queue = <<>>
    /\ emitted = 0
    /\ ev = Handling(0, "", "scan", "none", {})
    /\ last = [c \in Containers |-> "none"]
    /\ retval = "none"
    /\ \E w \in Worlds :
          /\ cstate = [c \in Containers |-> IF c \in w.up THEN "up"
                                            ELSE IF c \in w.exist THEN "down"
                                            ELSE "none"]
          /\ gw = w.gw
    /\ attached = {}
    /\ registry = StartupRegistry
    /\ caddyfile = StaleCaddyfile
    /\ cancelled = FALSE
    /\ streamErr = FALSE
    /\ StoreIdle
    /\ GuardIdle
    /\ OthersIdle

Next ==
    \/ ScanExisting
    \/ Subscribe
    \/ SkipOwnContainer
    \/ HandleContainerStart
    \/ HandleContainerStop
    \/ WriteCaddyfile
    \/ CheckGateway
    \/ GatewayUp
    \/ ReloadCaddy
    \/ RunCancelled
    \/ RunStreamError
    \/ \E c \in Containers : ContainerStarts(c)
    \/ \E c \in Containers : ContainerStops(c)
    \/ \E c \in Containers : ContainerDies(c)
    \/ GatewayChanges
    \/ HostSleeps
    \/ RegistryChanges
    \/ Cancel
    \/ StreamFails

Spec == Init /\ [][Next]_vars

----------------------------------------------------------------------------
(* Properties of the reconciler *)

HandlerFailed ==
    \/ ev.out \in {"load_error", "inspect_error", "attach_error", "scan_error"}
    \/ ev.rl \in {"render_failed", "write_failed", "check_failed", "up_failed",
                  "reload_failed", "cancelled"}

Renderings(table) == {GenerateCaddyfile(s).text : s \in AllSnapshots(table)}

\* C1: events are handled one at a time in delivery order: the handling of
\* an event begins only when Run is back at its select, with no handler's
\* chain of side effects (table mutation, render, install, reload) open, and
\* the event taken is the oldest undelivered one; while a chain is open the
\* table and the configuration file change only on behalf of that event.
C1_OneAtATime ==
    [][ /\ (ev'.seq # ev.seq) =>
              /\ pc = "select"
              /\ queue # <<>>
              /\ ev'.seq = Head(queue).seq
              /\ ev'.seq > ev.seq
              /\ \A i \in 1..Len(queue') : queue'[i].seq > ev'.seq
        /\ (pc \in {"write", "check", "up", "reload"}) =>
              /\ ev'.seq = ev.seq
              /\ ev'.id = ev.id
              /\ ev.fx \subseteq ev'.fx
        /\ (routes' # routes \/ caddyfile' # caddyfile) =>
              \/ pc = "scan"
              \/ pc = "write" /\ ev'.seq = ev.seq
              \/ pc = "select" /\ ev'.seq # ev.seq /\ "table" \in ev'.fx
      ]_vars

\* A handler is in the middle of its chain while a later event waits.
C1_Witness ==
    /\ pc = "reload"
    /\ ev.seq >= 1
    /\ queue # <<>>
    /\ "install" \in ev.fx

\* C2: a container has an entry in the table exactly when the last
\* table-changing event processed for it was a start that satisfied the entry
\* predicate; a stop or die that was processed leaves no entry for its
\* container; entries are keyed by container identity.
C2_RoutedIffLastStart ==
    /\ DOMAIN routes \subseteq Containers
    /\ \A c \in Containers : (c \in DOMAIN routes) <=> (last[c] = "start")
    /\ (ev.action \in {"stop", "die"}) => ev.id \notin DOMAIN routes

\* A routed container was removed by its die event while another stays routed.
C2_Witness ==
    /\ ev.action = "die"
    /\ ev.out = "removed"
    /\ last[ev.id] = "stop"
    /\ DOMAIN routes # {}

\* C6: every route in the table, inserted by the startup scan or by a start
\* event, has a hostname, a container name and a port that pass their
\* validator predicates.
C6_RoutesValid == \A c \in DOMAIN routes : RouteValid(routes[c])

\* C7: every routed container is attached to the shared network in the state
\* in which its route is inserted; a start event whose attach fails leaves
\* the table, the network and the configuration file as they were and is
\* followed by no render, install or reload.
C7_AttachBeforeRoute ==
    /\ [](/\ \A c \in DOMAIN routes : c \in attached
          /\ (ev.out = "attach_error") =>
                /\ ev.fx = {}
                /\ ev.rl = "none"
                /\ ev.reloads = 0
                /\ pc \in {"select", "returned"})
    /\ [][ (ev'.seq # ev.seq /\ ev'.out = "attach_error") =>
              /\ routes' = routes
              /\ attached' = attached
              /\ caddyfile' = caddyfile ]_vars

\* A start event attached its container and then inserted and installed it.
C7_Witness ==
    /\ ev.action = "start"
    /\ ev.out = "routed"
    /\ ev.id \in attached
    /\ ev.id \in DOMAIN routes
    /\ "install" \in ev.fx

\* C8: Run returns only on an error of the event stream (with an error) or
\* on cancellation (with nil); after a handler or the startup scan failed
\* the loop is at its select again and takes the next event.
C8_LoopSurvivesErrors ==
    /\ (pc = "returned") =>
          \/ retval = "error" /\ streamErr
          \/ retval = "nil" /\ cancelled
    /\ (pc # "returned") => retval = "none"
    /\ HandlerFailed => pc \in {"select", "returned"}
    /\ (HandlerFailed /\ pc = "select" /\ ~subscribed) => ENABLED Subscribe
    /\ (HandlerFailed /\ pc = "select" /\ subscribed /\ queue # <<>>
            /\ ~cancelled /\ ~streamErr) =>
          ENABLED (SkipOwnContainer \/ HandleContainerStart \/ HandleContainerStop)

\* The reload of one event failed and the loop is ready for the next event.
C8_Witness ==
    /\ pc = "select"
    /\ ev.rl = "reload_failed"
    /\ queue # <<>>
    /\ ~cancelled
    /\ ~streamErr

\* C9: a failed render, install or reload keeps the table as the event
\* mutated it; a write that fails leaves the configuration file as it was;
\* every install writes the rendering of the whole current table.
C9_FailureKeepsTable ==
    /\ [](/\ (ev.out = "routed") => ev.id \in DOMAIN routes
          /\ (ev.out = "removed") => ev.id \notin DOMAIN routes
          /\ ("install" \in ev.fx) => caddyfile \in Renderings(routes))
    /\ [][ (pc = "write" /\ ev'.rl \in {"render_failed", "write_failed"}) =>
              caddyfile' = caddyfile ]_vars

\* The install of a start event failed: its route is in the table and the
\* file still holds the earlier configuration.
C9_Witness ==
    /\ ev.out = "routed"
    /\ ev.rl = "write_failed"
    /\ ev.id \in DOMAIN routes
    /\ caddyfile = StaleCaddyfile

\* C10: when the reload command fails, reloadRoutes has brought the proxy up
\* and dispatched the reload a second time before it reports the failure.
C10_RetryOnce ==
    (ev.rl = "reload_failed") => (ev.ups >= 1 /\ ev.reloads = 2)

----------------------------------------------------------------------------
(* Specification of the renderer: tables of arbitrary routes are rendered
   and installed over an existing configuration file *)

RenderRoute(h, n, p) ==
    [Hostname |-> h, ContainerName |-> n, Port |-> p, Project |-> "t", Service |-> <<"s">>]

\* Routes as the renderer's tests build them: valid ones, and ones with a
\* brace in the hostname, a space in the container name, a non-numeric port.
RouteUniverse ==
    {RenderRoute(<<"a", ".", "l", "o">>, <<"w", "1">>, <<"8", "0">>),
     RenderRoute(<<"a", ".", "l", "o">>, <<"w", "2">>, <<"8", "0", "0", "0">>),
     RenderRoute(<<"b", ".", "l", "o">>, <<"w", "1">>, <<"8", "0">>),
     RenderRoute(<<"b", "{", "h">>, <<"w", "1">>, <<"8", "0">>),
     RenderRoute(<<"a", ".", "l", "o">>, <<"b", " ", "c">>, <<"8", "0", "0", "0">>),
     RenderRoute(<<"b", ".", "l", "o">>, <<"w", "1">>, <<"a", "b", "c">>),
     RenderRoute(<<"b", ".", "l", "o">>, <<"w", "3">>, <<"8", "0", ";", "1">>)}

RenderIds == {"r1", "r2", "r3"}

\* routes.Add before a render.
TableAdd ==
    /\ pc = "edit"
    /\ \E id \in RenderIds : \E r \in RouteUniverse :
          /\ id \in DOMAIN routes \/ Cardinality(DOMAIN routes) < MaxRoutes
          /\ routes' = Add(routes, id, r)
    /\ UNCHANGED <<pc, subscribed, queue, emitted, ev, last, retval>>
    /\ UNCHANGED envVars
    /\ UNCHANGED <<storeVars, otherVars>>

\* routes.Remove before a render.
TableRemove ==
    /\ pc = "edit"
    /\ \E id \in DOMAIN routes : routes' = Remove(routes, id)
    /\ UNCHANGED <<pc, subscribed, queue, emitted, ev, last, retval>>
    /\ UNCHANGED envVars
    /\ UNCHANGED <<storeVars, otherVars>>

\* reloadRoutes is entered: its first statement is WriteCaddyfile.
EnterReload ==
    /\ pc = "edit"
    /\ pc' = "write"
    /\ ev' = Handling(0, "", "render", "none", {})
    /\ UNCHANGED <<routes, subscribed, queue, emitted, last, retval>>
    /\ UNCHANGED envVars
    /\ UNCHANGED <<storeVars, otherVars>>

\* WriteCaddyfile has returned, with or without an error.
LeaveReload ==
    /\ pc \in {"check", "select"}
    /\ pc' = "edit"
    /\ UNCHANGED <<routes, subscribed, queue, emitted, ev, last, retval>>
    /\ UNCHANGED envVars
    /\ UNCHANGED <<storeVars, otherVars>>

InitRender ==
    /\ pc = "edit"
    /\ routes = EmptyTable
    /\ subscribed = FALSE
    /\ queue = <<>>
    /\ emitted = 0
    /\ ev = Handling(0, "", "render", "none", {})
    /\ last = [c \in Containers |-> "none"]
    /\ retval = "none"
    /\ cstate = [c \in Containers |-> "none"]
    /\ gw = "absent"
    /\ attached = {}
    /\ registry = NoFile
    /\ caddyfile = StaleCaddyfile
    /\ cancelled = FALSE
    /\ streamErr = FALSE
    /\ StoreIdle
    /\ GuardIdle
    /\ OthersIdle

NextRender ==
    \/ TableAdd
    \/ TableRemove
    \/ EnterReload
    \/ WriteCaddyfile
    \/ LeaveReload

SpecRender == InitRender /\ [][NextRender]_vars

\* The position of the first colon of an upstream address.
ColonAt(u) == CHOOSE i \in 1..Len(u) : u[i] = ":" /\ \A j \in 1..(i - 1) : u[j] # ":"

\* Every hostname, container name and port written in a configuration text
\* passes its predicate.
TextValuesValid(text) ==
    \A i \in 1..Len(text) :
        /\ (text[i].k = "site") => ValidateHostname(text[i].a[1])
        /\ (text[i].k = "reverse_proxy") =>
              \A j \in 1..Len(text[i].a) :
                 LET u == text[i].a[j]
                 IN  /\ \E x \in 1..Len(u) : u[x] = ":"
                     /\ ValidateContainerName(SubSeq(u, 1, ColonAt(u) - 1))
                     /\ ValidatePort(SubSeq(u, ColonAt(u) + 1, Len(u)))

HasInvalidRoute(table) == \E c \in DOMAIN table : ~RouteValid(table[c])

\* C5: when a route of the table has a hostname, container name or port that
\* fails its predicate (also as a second upstream of a shared hostname), the
\* render returns an error and the configuration file keeps its content;
\* every value in an installed configuration passes its predicate.
C5_InjectionGuard ==
    /\ [](/\ TextValuesValid(caddyfile)
          /\ (pc \in {"check", "select"} /\ HasInvalidRoute(routes)) =>
                /\ ev.rl = "render_failed"
                /\ "install" \notin ev.fx
          /\ (pc \in {"check", "select"} /\ "install" \in ev.fx) =>
                /\ ~HasInvalidRoute(routes)
                /\ caddyfile \in Renderings(routes))
    /\ [][ (pc = "write" /\ HasInvalidRoute(routes)) =>
              /\ ev'.rl = "render_failed"
              /\ caddyfile' = caddyfile ]_vars

\* A table with a good and a bad upstream under one hostname was refused
\* after an earlier table had been installed.
C5_Witness ==
    /\ pc = "select"
    /\ ev.rl = "render_failed"
    /\ caddyfile # StaleCaddyfile
    /\ \E c, d \in DOMAIN routes :
          /\ c # d
          /\ routes[c].Hostname = routes[d].Hostname
          /\ RouteValid(routes[c])
          /\ ~ValidateContainerName(routes[d].ContainerName)

----------------------------------------------------------------------------
(* Specification of the project store: concurrent LoadAndModify invocations
   on projects.yml and a reader that takes no lock *)

\* The registry before the invocations.
InitialProjects == {"late", "zeta"}

\* The modifier of invocation p: adopt (odd p) or unadopt (even p) the
\* project ProjectOrder[p]; the invocations touch distinct names.
Mutation(p, projects) ==
    IF p % 2 = 1 THEN projects \cup {ProjectOrder[p]}
    ELSE projects \ {ProjectOrder[p]}

Effect(p, projects) ==
    IF p % 2 = 1 THEN ProjectOrder[p] \in projects
    ELSE ProjectOrder[p] \notin projects

\* Contents a write of some bytes of data can leave behind.
Prefixes(data) == {SubSeq(data, 1, k) : k \in 0..(Len(data) - 1)}

\* syscall.Flock(LOCK_EX) without blocking on the holder.
LockAvailableAlways(p) == TRUE

\* syscall.Flock(LOCK_EX) returns when no other open file holds the lock.
LockAvailable(p) == lockHolder = 0

StoreStep(p, to, res) ==
    /\ spc' = [spc EXCEPT ![p] = to]
    /\ result' = [result EXCEPT ![p] = res]

\* A LoadAndModify that releases the lock only at the end of its success
\* path: an error returns at once.
AfterFailureLeaks == "done"

\* LoadAndModify returns an error after Flock succeeded: the deferred
\* Flock(LOCK_UN) and lockFile.Close() run first.
AfterFailure == "unlock"

\* LoadAndModify: EnsureHomeDir and os.OpenFile of the lock file.
Begin(p) ==
    /\ spc[p] = "idle"
    /\ \E ok \in BOOLEAN :
          IF ok THEN StoreStep(p, "flock", "none") ELSE StoreStep(p, "done", "error")
    /\ UNCHANGED <<files, lockHolder, cfg, observed>>
    /\ UNCHANGED <<watcherVars, envVars, otherVars>>

\* syscall.Flock(fd, LOCK_EX); its release is deferred from here on.
Flock(p) ==
    /\ spc[p] = "flock"
    /\ \/ /\ LockAvailable(p)
          /\ lockHolder' = p
          /\ StoreStep(p, "load", "none")
       \/ /\ StoreStep(p, "done", "error")
          /\ UNCHANGED lockHolder
    /\ UNCHANGED <<files, cfg, observed>>
    /\ UNCHANGED <<watcherVars, envVars, otherVars>>

\* cfg, err := Load()
LoadConfig(p) ==
    /\ spc[p] = "load"
    /\ \E ok \in BOOLEAN :
          IF ok
          THEN /\ cfg' = [cfg EXCEPT ![p] = Load(files[TargetPath])]
               /\ StoreStep(p, "fn", "none")
          ELSE /\ StoreStep(p, AfterFailure, "error")
               /\ UNCHANGED cfg
    /\ UNCHANGED <<files, lockHolder, observed>>
    /\ UNCHANGED <<watcherVars, envVars, otherVars>>

\* fn(cfg)
Modify(p) ==
    /\ spc[p] = "fn"
    /\ \E ok \in BOOLEAN :
          IF ok
          THEN /\ cfg' = [cfg EXCEPT ![p] = Mutation(p, cfg[p])]
               /\ StoreStep(p, "save", "none")
          ELSE /\ StoreStep(p, AfterFailure, "error")
               /\ UNCHANGED cfg
    /\ UNCHANGED <<files, lockHolder, observed>>
    /\ UNCHANGED <<watcherVars, envVars, otherVars>>

\* cfg.Save up to atomicWriteFile's os.CreateTemp.
CreateTemp(p) ==
    /\ spc[p] = "save"
    /\ \E ok \in BOOLEAN :
          IF ok
          THEN /\ files' = [files EXCEPT ![TempPath(p)] = <<>>]
               /\ StoreStep(p, "write", "none")
          ELSE /\ StoreStep(p, AfterFailure, "error")
               /\ UNCHANGED files
    /\ UNCHANGED <<lockHolder, cfg, observed>>
    /\ UNCHANGED <<watcherVars, envVars, otherVars>>

\* tmp.Write(data): all of data, or an error after some of it.
WriteTemp(p) ==
    /\ spc[p] = "write"
    /\ \/ /\ files' = [files EXCEPT ![TempPath(p)] = Marshal(cfg[p])]
          /\ StoreStep(p, "chmod", "none")
       \/ \E part \in Prefixes(Marshal(cfg[p])) :
             /\ files' = [files EXCEPT ![TempPath(p)] = part]
             /\ StoreStep(p, "cleanup", "none")
    /\ UNCHANGED <<lockHolder, cfg, observed>>
    /\ UNCHANGED <<watcherVars, envVars, otherVars>>

\* tmp.Chmod(perm)
ChmodTemp(p) ==
    /\ spc[p] = "chmod"
    /\ \E ok \in BOOLEAN :
          StoreStep(p, IF ok THEN "close" ELSE "cleanup", "none")
    /\ UNCHANGED <<files, lockHolder, cfg, observed>>
    /\ UNCHANGED <<watcherVars, envVars, otherVars>>

\* tmp.Close()
CloseTemp(p) ==
    /\ spc[p] = "close"
    /\ \E ok \in BOOLEAN :
          StoreStep(p, IF ok THEN "rename" ELSE "cleanup", "none")
    /\ UNCHANGED <<files, lockHolder, cfg, observed>>
    /\ UNCHANGED <<watcherVars, envVars, otherVars>>

\* os.Rename(tmpPath, path)
RenameTemp(p) ==
    /\ spc[p] = "rename"
    /\ \E ok \in BOOLEAN :
          IF ok
          THEN /\ files' = [files EXCEPT ![TargetPath] = files[TempPath(p)],
                                         ![TempPath(p)] = NoFile]
               /\ StoreStep(p, "unlock", "ok")
          ELSE /\ StoreStep(p, "cleanup", "none")
               /\ UNCHANGED files
    /\ UNCHANGED <<lockHolder, cfg, observed>>
    /\ UNCHANGED <<watcherVars, envVars, otherVars>>

\* os.Remove(tmpPath) on the error paths of atomicWriteFile.
RemoveTemp(p) ==
    /\ spc[p] = "cleanup"
    /\ files' = [files EXCEPT ![TempPath(p)] = NoFile]
    /\ StoreStep(p, AfterFailure, "error")
    /\ UNCHANGED <<lockHolder, cfg, observed>>
    /\ UNCHANGED <<watcherVars, envVars, otherVars>>

\* The deferred Flock(LOCK_UN) and lockFile.Close() as LoadAndModify returns.
Unlock(p) ==
    /\ spc[p] = "unlock"
    /\ lockHolder' = IF lockHolder = p THEN 0 ELSE lockHolder
    /\ StoreStep(p, "done", result[p])
    /\ UNCHANGED <<files, cfg, observed>>
    /\ UNCHANGED <<watcherVars, envVars, otherVars>>

\* config.Load by a reader that takes no lock (the reconciler, the CLI).
ReadRegistry ==
    /\ observed' = files[TargetPath]
    /\ observed' # observed
    /\ UNCHANGED <<spc, files, lockHolder, cfg, result>>
    /\ UNCHANGED <<watcherVars, envVars, otherVars>>

InitStore ==
    /\ pc = "returned"
    /\ routes = EmptyTable
    /\ subscribed = FALSE
    /\ queue = <<>>
    /\ emitted = 0
    /\ ev = Handling(0, "", "none", "none", {})
    /\ last = [c \in Containers |-> "none"]
    /\ retval = "none"
    /\ cstate = [c \in Containers |-> "none"]
    /\ gw = "absent"
    /\ attached = {}
    /\ registry = NoFile
    /\ caddyfile = StaleCaddyfile
    /\ cancelled = FALSE
    /\ streamErr = FALSE
    /\ spc = [p \in 1..NumProcs |-> "idle"]
    /\ files = [f \in StoreFiles |->
                  IF f = TargetPath THEN Marshal(InitialProjects) ELSE NoFile]
    /\ lockHolder = 0
    /\ cfg = [p \in 1..NumProcs |-> {}]
    /\ result = [p \in 1..NumProcs |-> "none"]
    /\ observed = Marshal(InitialProjects)
    /\ OthersIdle
    /\ GuardIdle

NextStore ==
    \/ \E p \in 1..NumProcs : Begin(p)
    \/ \E p \in 1..NumProcs : Flock(p)
    \/ \E p \in 1..NumProcs : LoadConfig(p)
    \/ \E p \in 1..NumProcs : Modify(p)
    \/ \E p \in 1..NumProcs : CreateTemp(p)
    \/ \E p \in 1..NumProcs : WriteTemp(p)
    \/ \E p \in 1..NumProcs : ChmodTemp(p)
    \/ \E p \in 1..NumProcs : CloseTemp(p)
    \/ \E p \in 1..NumProcs : RenameTemp(p)
    \/ \E p \in 1..NumProcs : RemoveTemp(p)
    \/ \E p \in 1..NumProcs : Unlock(p)
    \/ ReadRegistry

SpecStore == InitStore /\ [][NextStore]_vars

\* Positions of LoadAndModify between the return of Flock and the deferred
\* release.
UnderLock == {"load", "fn", "save", "write", "chmod", "close", "rename", "cleanup", "unlock"}

\* Contents of a registry file written in full.
CompleteContents == {Marshal(S) : S \in SUBSET ProjectNames}

\* C3: concurrent LoadAndModify invocations on distinct project names hold
\* the exclusive lock from before the load until after the rename, one at a
\* time, and the registry contains the effect of every invocation that
\* returned without error (and still the projects none of them touched).
C3_NoLostUpdate ==
    /\ \A p \in 1..NumProcs : (spc[p] \in UnderLock) => lockHolder = p
    /\ \A p, q \in 1..NumProcs :
          (p # q /\ spc[p] \in UnderLock) => spc[q] \notin UnderLock
    /\ \A p \in 1..NumProcs :
          (spc[p] = "done" /\ result[p] = "ok") => Effect(p, Load(files[TargetPath]))
    /\ "zeta" \in Load(files[TargetPath])

\* Every invocation has returned without error.
C3_Witness ==
    /\ \A p \in 1..NumProcs : spc[p] = "done" /\ result[p] = "ok"
    /\ \A p \in 1..NumProcs : Effect(p, Load(files[TargetPath]))
    /\ files[TargetPath] # Marshal(InitialProjects)

\* C4: the target of atomicWriteFile always holds a complete content, the
\* previous one until the rename and the new one from then on, so a reader
\* never reads a partial or empty file; a write that fails before the rename
\* leaves the target with its previous content.
C4_AtomicReplace ==
    /\ [](/\ files[TargetPath] \in CompleteContents
          /\ observed \in CompleteContents)
    /\ [][ /\ (files'[TargetPath] # files[TargetPath]) =>
                 \E p \in 1..NumProcs :
                    /\ spc[p] = "rename"
                    /\ result'[p] = "ok"
                    /\ files'[TargetPath] = Marshal(cfg[p])
           /\ \A p \in 1..NumProcs :
                 (spc[p] \in {"save", "write", "chmod", "close", "rename", "cleanup"}
                     /\ result'[p] # "ok")
                 => files'[TargetPath] = files[TargetPath] ]_vars

\* A reader has read the new content of one writer while the write of
\* another writer failed after part of its data.
C4_Witness ==
    /\ observed # Marshal(InitialProjects)
    /\ observed = files[TargetPath]
    /\ \E p \in 1..NumProcs :
          /\ spc[p] = "cleanup"
          /\ files[TempPath(p)] \notin CompleteContents
          /\ files[TempPath(p)] # NoFile

----------------------------------------------------------------------------
(* Properties of the renderer on a table *)

\* C11: the rendering is a function of the set of routes in the table: every
\* snapshot that All can return for the table renders to the same text, also
\* when several routes share a hostname.
C11_RenderDeterministic ==
    \A s1, s2 \in AllSnapshots(routes) :
        GenerateCaddyfile(s1).text = GenerateCaddyfile(s2).text

Hostnames(table) == {table[c].Hostname : c \in DOMAIN table}

LinesOf(text, kind) == {i \in 1..Len(text) : text[i].k = kind}

\* Number of places of a sequence that hold x.
Count(seq, x) == Cardinality({j \in 1..Len(seq) : seq[j] = x})

\* The text is the preamble followed by one site block per hostname of the
\* table, each with one reverse-proxy directive that lists the upstream of
\* every route of that hostname once per route.
Coalesced(text, table) ==
    /\ Len(text) = 4 + 4 * Cardinality(Hostnames(table))
    /\ SubSeq(text, 1, 4) = Preamble
    /\ \A h \in Hostnames(table) :
          Cardinality({i \in LinesOf(text, "site") : text[i].a = <<h>>}) = 1
    /\ \A i \in LinesOf(text, "site") :
          /\ i > 4
          /\ text[i].a[1] \in Hostnames(table)
          /\ text[i + 1].k = "tls internal"
          /\ text[i + 2].k = "reverse_proxy"
          /\ text[i + 3].k = "}"
          /\ LET h    == text[i].a[1]
                 ups  == text[i + 2].a
                 mine == {c \in DOMAIN table : table[c].Hostname = h}
             IN  /\ Len(ups) = Cardinality(mine)
                 /\ \A c \in mine :
                       Count(ups, Upstream(table[c])) =
                          Cardinality({d \in mine : Upstream(table[d]) = Upstream(table[c])})
    /\ Cardinality(LinesOf(text, "reverse_proxy")) = Cardinality(Hostnames(table))
    /\ (table = EmptyTable) => text = Preamble

\* C12: the rendering of a valid table has exactly one site block per
\* distinct hostname, with exactly one reverse-proxy directive that lists
\* exactly the upstreams of the routes of that hostname; the empty table
\* renders the preamble and no reverse-proxy directive.
C12_Coalescing ==
    /\ ~HasInvalidRoute(routes) =>
          \A snap \in AllSnapshots(routes) :
              /\ ~GenerateCaddyfile(snap).err
              /\ Coalesced(GenerateCaddyfile(snap).text, routes)
    /\ (pc = "check" /\ "install" \in ev.fx) => Coalesced(caddyfile, routes)

\* Two routes that share a hostname were installed as one block.
C12_Witness ==
    /\ pc = "check"
    /\ "install" \in ev.fx
    /\ Cardinality(DOMAIN routes) = 2
    /\ Cardinality(Hostnames(routes)) = 1
    /\ \E i \in LinesOf(caddyfile, "reverse_proxy") : Len(caddyfile[i].a) = 2

----------------------------------------------------------------------------
(* Specification of the route table: goroutines call Add, Remove, Get, Len
   and All on one ActiveRoutes; every method takes the lock of the table,
   and All copies the map entry by entry before it sorts the copy *)

Callers == 1..NumCallers

TableIds == {"r1", "r2"}

\* The table the callers start from, and a route one of them adds.
FullTable ==
    [id \in TableIds |->
        IF id = "r1" THEN RenderRoute(<<"b", ".", "l", "o">>, <<"w", "1">>, <<"8", "0">>)
        ELSE RenderRoute(<<"a", ".", "l", "o">>, <<"w", "2">>, <<"8", "0">>)]

NewRoute == RenderRoute(<<"c", ".", "l", "o">>, <<"w", "3">>, <<"8", "0">>)

NoRoute == RenderRoute(<<>>, <<>>, <<>>)

\* The locals of a method call.
Locals(op, id, route) ==
    [op |-> op, id |-> id, route |-> route, todo |-> {}, acc |-> EmptyTable,
     ok |-> FALSE, n |-> 0, snap |-> <<>>]

\* The method calls of the callers.
Calls ==
    {Locals("Add", "r1", NewRoute), Locals("Remove", "r1", NoRoute),
     Locals("Remove", "r2", NoRoute), Locals("Get", "r1", NoRoute),
     Locals("Len", "", NoRoute), Locals("All", "", NoRoute)}

Returned(l) == [op |-> l.op, ok |-> l.ok, n |-> l.n, snap |-> l.snap]

Pending(p) == tpc[p] # "idle"

\* A table whose methods do not wait for the lock.
MuFreeAlways(p) == TRUE

\* ar.mu.Lock() / RLock() returns when no other caller holds the lock.
MuFree(p) == mu = 0

\* A goroutine calls its method.
Call(p) ==
    /\ tpc[p] = "idle"
    /\ tloc[p].op = "none"
    /\ tcalls' = tcalls + 1
    /\ \E l \in Calls : tloc' = [tloc EXCEPT ![p] = l]
    /\ tpc' = [tpc EXCEPT ![p] = "lock"]
    /\ tseen' = [tseen EXCEPT ![p] = {routes}]
    /\ UNCHANGED <<routes, mu, tret>>
    /\ UNCHANGED <<pc, subscribed, queue, emitted, ev, last, retval>>
    /\ UNCHANGED <<envVars, storeVars, callVars, guardVars>>

\* ar.mu.Lock()
Acquire(p) ==
    /\ tpc[p] = "lock"
    /\ MuFree(p)
    /\ mu' = p
    /\ tpc' = [tpc EXCEPT ![p] = "body"]
    /\ UNCHANGED <<routes, tloc, tret, tseen, tcalls>>
    /\ UNCHANGED <<pc, subscribed, queue, emitted, ev, last, retval>>
    /\ UNCHANGED <<envVars, storeVars, callVars, guardVars>>

\* The body of Add (ar.routes[id] = route) or Remove (delete(ar.routes, id)).
Mutate(p) ==
    /\ tpc[p] = "body"
    /\ tloc[p].op \in {"Add", "Remove"}
    /\ routes' = IF tloc[p].op = "Add"
                 THEN Add(routes, tloc[p].id, tloc[p].route)
                 ELSE Remove(routes, tloc[p].id)
    /\ tseen' = [q \in Callers |-> IF Pending(q) THEN tseen[q] \cup {routes'}
                                   ELSE tseen[q]]
    /\ tpc' = [tpc EXCEPT ![p] = "unlock"]
    /\ UNCHANGED <<mu, tloc, tret, tcalls>>
    /\ UNCHANGED <<pc, subscribed, queue, emitted, ev, last, retval>>
    /\ UNCHANGED <<envVars, storeVars, callVars, guardVars>>

\* The body of Get (r, ok := ar.routes[id]) or Len (len(ar.routes)).
Read(p) ==
    /\ tpc[p] = "body"
    /\ tloc[p].op \in {"Get", "Len"}
    /\ tloc' = [tloc EXCEPT ![p].ok = Get(routes, tloc[p].id),
                            ![p].n = Cardinality(DOMAIN routes)]
    /\ tpc' = [tpc EXCEPT ![p] = "unlock"]
    /\ UNCHANGED <<routes, mu, tret, tseen, tcalls>>
    /\ UNCHANGED <<pc, subscribed, queue, emitted, ev, last, retval>>
    /\ UNCHANGED <<envVars, storeVars, callVars, guardVars>>

\* All: the loop over the map begins.
CopyBegin(p) ==
    /\ tpc[p] = "body"
    /\ tloc[p].op = "All"
    /\ tloc' = [tloc EXCEPT ![p].todo = DOMAIN routes]
    /\ tpc' = [tpc EXCEPT ![p] = "copy"]
    /\ UNCHANGED <<routes, mu, tret, tseen, tcalls>>
    /\ UNCHANGED <<pc, subscribed, queue, emitted, ev, last, retval>>
    /\ UNCHANGED <<envVars, storeVars, callVars, guardVars>>

\* All: one iteration of the loop appends the entry the map holds now.
CopyOne(p) ==
    /\ tpc[p] = "copy"
    /\ \E id \in tloc[p].todo :
          tloc' = [tloc EXCEPT ![p].todo = @ \ {id},
                               ![p].acc = IF id \in DOMAIN routes
                                          THEN Add(@, id, routes[id]) ELSE @]
    /\ UNCHANGED <<routes, tpc, mu, tret, tseen, tcalls>>
    /\ UNCHANGED <<pc, subscribed, queue, emitted, ev, last, retval>>
    /\ UNCHANGED <<envVars, storeVars, callVars, guardVars>>

\* All: the copy is sorted by hostname.
SortCopy(p) ==
    /\ tpc[p] = "copy"
    /\ tloc[p].todo = {}
    /\ \E s \in AllSnapshots(tloc[p].acc) : tloc' = [tloc EXCEPT ![p].snap = s]
    /\ tpc' = [tpc EXCEPT ![p] = "unlock"]
    /\ UNCHANGED <<routes, mu, tret, tseen, tcalls>>
    /\ UNCHANGED <<pc, subscribed, queue, emitted, ev, last, retval>>
    /\ UNCHANGED <<envVars, storeVars, callVars, guardVars>>

\* The deferred ar.mu.Unlock() and the return of the method.
Release(p) ==
    /\ tpc[p] = "unlock"
    /\ mu' = IF mu = p THEN 0 ELSE mu
    /\ tret' = [tret EXCEPT ![p] = Returned(tloc[p])]
    /\ tpc' = [tpc EXCEPT ![p] = "idle"]
    /\ UNCHANGED <<routes, tloc, tseen, tcalls>>
    /\ UNCHANGED <<pc, subscribed, queue, emitted, ev, last, retval>>
    /\ UNCHANGED <<envVars, storeVars, callVars, guardVars>>

InitTable ==
    /\ pc = "returned"
    /\ routes \in {EmptyTable, FullTable}
    /\ subscribed = FALSE
    /\ queue = <<>>
    /\ emitted = 0
    /\ ev = Handling(0, "", "none", "none", {})
    /\ last = [c \in Containers |-> "none"]
    /\ retval = "none"
    /\ cstate = [c \in Containers |-> "none"]
    /\ gw = "absent"
    /\ attached = {}
    /\ registry = NoFile
    /\ caddyfile = StaleCaddyfile
    /\ cancelled = FALSE
    /\ streamErr = FALSE
    /\ StoreIdle
    /\ GuardIdle
    /\ tpc = [p \in Callers |-> "idle"]
    /\ mu = 0
    /\ tloc = [p \in Callers |-> Locals("none", "", NoRoute)]
    /\ tret = [p \in Callers |-> Returned(Locals("none", "", NoRoute))]
    /\ tseen = [p \in Callers |-> {}]
    /\ tcalls = 0
    /\ inp = [f |-> "none"]
    /\ outp = [f |-> "none"]

NextTable ==
    \/ \E p \in Callers : Call(p)
    \/ \E p \in Callers : Acquire(p)
    \/ \E p \in Callers : Mutate(p)
    \/ \E p \in Callers : Read(p)
    \/ \E p \in Callers : CopyBegin(p)
    \/ \E p \in Callers : CopyOne(p)
    \/ \E p \in Callers : SortCopy(p)
    \/ \E p \in Callers : Release(p)

SpecTable == InitTable /\ [][NextTable]_vars

\* What the call that caller p has finished returned is what the method
\* returns on one of the tables that existed while the call was open.
ReturnFitsOneTable(p) ==
    \E t \in tseen[p] :
        CASE tret[p].op = "All"    -> tret[p].snap \in AllSnapshots(t)
          [] tret[p].op = "Get"    -> tret[p].ok = Get(t, tloc[p].id)
          [] tret[p].op = "Len"    -> tret[p].n = Cardinality(DOMAIN t)
          [] tret[p].op = "Add"    -> Get(t, tloc[p].id) /\ t[tloc[p].id] = tloc[p].route
          [] tret[p].op = "Remove" -> ~Get(t, tloc[p].id)
          [] OTHER                 -> TRUE

\* C13: every call on the route table takes effect at one point between its
\* invocation and its return: the bodies run one at a time under the lock,
\* the table changes only by the whole effect of one Add or Remove, what a
\* call returns (for All, a hostname-sorted copy) fits one table that existed
\* during the call, and a value already returned changes no more.
C13_Linearizable ==
    /\ [](/\ \A p \in Callers : (tpc[p] \in {"body", "copy", "unlock"}) => mu = p
          /\ \A p \in Callers :
                (tpc[p] = "idle" /\ tloc[p].op # "none") => ReturnFitsOneTable(p))
    /\ [][ /\ (routes' # routes) =>
                 \E p \in Callers :
                    /\ tpc[p] = "body"
                    /\ tpc'[p] = "unlock"
                    /\ routes' \in {Add(routes, tloc[p].id, tloc[p].route),
                                    Remove(routes, tloc[p].id)}
           /\ \A p \in Callers :
                 (tret'[p] # tret[p]) => (tpc[p] = "unlock" /\ tpc'[p] = "idle") ]_vars

\* All has returned a snapshot of two routes although the table was changed
\* by another caller while the call was open.
C13_Witness ==
    \E p \in Callers :
        /\ tpc[p] = "idle"
        /\ tret[p].op = "All"
        /\ Len(tret[p].snap) = 2
        /\ Cardinality(tseen[p]) >= 2
        /\ routes # EmptyTable

----------------------------------------------------------------------------
(* Compose inspection (package adopt, detect.go) *)

\* A string as the sequence of its characters.
Chars(s) == [i \in 1..Len(s) |-> SubSeq(s, i, i)]

\* strings.Split(s, sep)[0]
SplitFirst(s, sep) ==
    IF \E i \in 1..Len(s) : s[i] = sep
    THEN SubSeq(s, 1, (CHOOSE i \in 1..Len(s) :
                          s[i] = sep /\ \A j \in 1..(i - 1) : s[j] # sep) - 1)
    ELSE s

\* The last element of strings.Split(s, sep)
SplitLast(s, sep) ==
    IF \E i \in 1..Len(s) : s[i] = sep
    THEN SubSeq(s, (CHOOSE i \in 1..Len(s) :
                       s[i] = sep /\ \A j \in (i + 1)..Len(s) : s[j] # sep) + 1, Len(s))
    ELSE s

\* strings.Contains(s, sub)
Contains(s, sub) ==
    \E i \in 0..(Len(s) - Len(sub)) : SubSeq(s, i + 1, i + Len(sub)) = sub

\* Known HTTP server images and their ports.
httpImages ==
    [i \in {Chars("caddy"), Chars("nginx"), Chars("apache"), Chars("httpd"),
            Chars("node"), Chars("traefik")} |->
        IF i = Chars("node") THEN Chars("3000") ELSE Chars("80")]

\* Known non-HTTP images.
nonHTTPImages ==
    {Chars("postgres"), Chars("mysql"), Chars("mariadb"), Chars("mongo"),
     Chars("redis"), Chars("memcached"), Chars("rabbitmq"),
     Chars("elasticsearch"), Chars("kibana"), Chars("zookeeper"),
     Chars("kafka"), Chars("mailhog"), Chars("mailpit"), Chars("minio")}

\* Known HTTP ports.
knownHTTPPorts ==
    {Chars("80"), Chars("443"), Chars("3000"), Chars("3001"), Chars("4000"),
     Chars("5000"), Chars("5173"), Chars("8000"), Chars("8080"), Chars("8443")}

\* Known non-HTTP ports.
knownNonHTTPPorts ==
    {Chars("5432"), Chars("3306"), Chars("27017"), Chars("6379"), Chars("5672"),
     Chars("9200"), Chars("9300"), Chars("2181"), Chars("9092"), Chars("11211")}

\* extractContainerPort: the container port of "8080:80", "80/tcp",
\* "127.0.0.1:8080:80" or "8000-8100"; "" when it is not a number.
extractContainerPort(portSpec) ==
    LET containerPart ==
            SplitFirst(SplitLast(SplitFirst(portSpec, "/"), ":"), "-")
    IN  IF AtoiOK(containerPart) THEN containerPart ELSE <<>>

\* extractImageBase: "caddy" from "caddy:2-alpine".
extractImageBase(image) == SplitFirst(SplitLast(image, "/"), ":")

\* parseBuildConfig: whether the build value (nil, a context string or map,
\* or another YAML value) gives a build context.
parseBuildConfig(build) == build = "context"

\* A composeServiceDef together with its name and the EXPOSE ports that
\* scanDockerfileExpose finds in the build context.
ServiceDef(name, image, build, ports, expose, dockerfile) ==
    [name |-> Chars(name), image |-> Chars(image), build |-> build,
     ports |-> [i \in DOMAIN ports |-> Chars(ports[i])],
     expose |-> [i \in DOMAIN expose |-> Chars(expose[i])],
     dockerfile |-> [i \in DOMAIN dockerfile |-> Chars(dockerfile[i])]]

ComposeService(name, image, ports, isHTTP, port) ==
    [Name |-> name, Image |-> image, Ports |-> ports, IsHTTP |-> isHTTP, Port |-> port]

\* The ports collected from the ports and expose directives, and from the
\* Dockerfile when there are none and the service has a build context.
observedPorts(svc) ==
    LET mapped   == [i \in DOMAIN svc.ports |-> extractContainerPort(svc.ports[i])]
        declared == SelectSeq(mapped, LAMBDA p : p # <<>>) \o svc.expose
    IN  IF declared = <<>> /\ parseBuildConfig(svc.build)
        THEN svc.dockerfile
        ELSE declared

\* What a loop over the ports finds: the port at the first of the given
\* indices (ok FALSE when there is none).
FirstPort(ports, hits) ==
    IF hits # {}
    THEN [ok |-> TRUE, port |-> ports[CHOOSE i \in hits : \A j \in hits : i <= j]]
    ELSE [ok |-> FALSE, port |-> <<>>]

\* Image and name checks that look at the service name before the HTTP images.
ImageRulesNameFirst(svc, ports) ==
    LET imageName == extractImageBase(svc.image)
    IN  IF imageName \in nonHTTPImages \/ svc.name \in nonHTTPImages
        THEN [done |-> TRUE, cs |-> ComposeService(svc.name, svc.image, ports, FALSE, <<>>)]
        ELSE IF imageName \in DOMAIN httpImages
        THEN [done |-> TRUE,
              cs |-> ComposeService(svc.name, svc.image, ports, TRUE, httpImages[imageName])]
        ELSE [done |-> FALSE, cs |-> ComposeService(svc.name, svc.image, ports, FALSE, <<>>)]

\* The image and name checks of analyzeService done before the ports.
ImageRulesFirst(svc, ports) ==
    LET imageName == extractImageBase(svc.image)
    IN  IF imageName \in nonHTTPImages
        THEN [done |-> TRUE, cs |-> ComposeService(svc.name, svc.image, ports, FALSE, <<>>)]
        ELSE IF imageName \in DOMAIN httpImages
        THEN [done |-> TRUE,
              cs |-> ComposeService(svc.name, svc.image, ports, TRUE, httpImages[imageName])]
        ELSE IF svc.name \in nonHTTPImages
        THEN [done |-> TRUE, cs |-> ComposeService(svc.name, svc.image, ports, FALSE, <<>>)]
        ELSE [done |-> FALSE, cs |-> ComposeService(svc.name, svc.image, ports, FALSE, <<>>)]

analyzeService(svc) ==
    LET ports    == observedPorts(svc)
        byImage  == ImageRulesFirst(svc, ports)
        known    == FirstPort(ports, {i \in 1..Len(ports) : ports[i] \in knownHTTPPorts})
        built    == FirstPort(ports, {i \in 1..Len(ports) : ports[i] \notin knownNonHTTPPorts})
        other    == FirstPort(ports, {i \in 1..Len(ports) : ports[i] \notin knownNonHTTPPorts})
    IN  IF byImage.done THEN byImage.cs
        ELSE IF known.ok
        THEN ComposeService(svc.name, svc.image, ports, TRUE, known.port)
        ELSE IF svc.build # "nil" /\ Len(ports) > 0 /\ built.ok
        THEN ComposeService(svc.name, svc.image, ports, TRUE, built.port)
        ELSE IF other.ok
        THEN ComposeService(svc.name, svc.image, ports, TRUE, other.port)
        ELSE ComposeService(svc.name, svc.image, ports, FALSE, <<>>)
\* FindPrimaryService: the index (from 0) of the service that gets the base
\* hostname.
primaryImages == <<Chars("caddy"), Chars("nginx"), Chars("httpd"), Chars("apache")>>
primaryNames  == <<Chars("web"), Chars("app"), Chars("caddy"), Chars("nginx")>>

\* What an inner loop over the services returns: the first of the matching
\* indices, counted from 0, and -1 when the loop falls through.
FirstService(hits) ==
    IF hits # {} THEN (CHOOSE i \in hits : \A j \in hits : i <= j) - 1 ELSE -1

\* What an outer loop over a keyword list returns, given the matching
\* service indices of each keyword: the first service of the first keyword
\* that any service matches, -1 when the loop falls through.
FirstKeyword(matches) ==
    IF \E k \in 1..Len(matches) : matches[k] # {}
    THEN FirstService(matches[CHOOSE k \in 1..Len(matches) :
                                 /\ matches[k] # {}
                                 /\ \A j \in 1..(k - 1) : matches[j] = {}])
    ELSE -1

\* The services whose image base name contains each of the primary images.
ImageMatches(services) ==
    [k \in 1..Len(primaryImages) |->
        {i \in 1..Len(services) :
            Contains(extractImageBase(services[i].Image), primaryImages[k])}]

\* The services named by each of the primary names.
NameMatches(services) ==
    [k \in 1..Len(primaryNames) |->
        {i \in 1..Len(services) : services[i].Name = primaryNames[k]}]

\* The services whose detected port is 80.
Port80Matches(services) == {i \in 1..Len(services) : services[i].Port = Chars("80")}

\* A primary election that looks at the service names before the images.
FindPrimaryServiceNameFirst(services) ==
    LET byImage == FirstKeyword(ImageMatches(services))
        byName  == FirstKeyword(NameMatches(services))
        byPort  == FirstService(Port80Matches(services))
    IN  IF byName >= 0 THEN byName
        ELSE IF byImage >= 0 THEN byImage
        ELSE IF byPort >= 0 THEN byPort
        ELSE 0

FindPrimaryService(services) ==
    LET byImage == FirstKeyword(ImageMatches(services))
        byName  == FirstKeyword(NameMatches(services))
        byPort  == FirstService(Port80Matches(services))
    IN  IF byImage >= 0 THEN byImage
        ELSE IF byName >= 0 THEN byName
        ELSE IF byPort >= 0 THEN byPort
        ELSE 0

\* A hostname assignment that gives every service the base hostname.
assignHostnamesAllBase(services, baseHostname) ==
    [n \in {services[i].Name : i \in 1..Len(services)} |-> baseHostname]

\* assignHostnames: the primary service gets the base hostname, every other
\* service "<name>.<base>".
assignHostnames(services, baseHostname) ==
    LET primaryIdx == FindPrimaryService(services)
        \* later entries of the loop overwrite earlier ones of the same name
        lastOf(n) == CHOOSE i \in 1..Len(services) :
                        /\ services[i].Name = n
                        /\ \A j \in (i + 1)..Len(services) : services[j].Name # n
    IN  [n \in {services[i].Name : i \in 1..Len(services)} |->
            IF lastOf(n) - 1 = primaryIdx
            THEN baseHostname
            ELSE n \o <<".">> \o baseHostname]

----------------------------------------------------------------------------
(* The compose services and project directories of this model *)

\* The services that the manifests of this model declare.
ServiceDefs ==
    {ServiceDef("web",    "node:18", "nil", <<"3000:3000">>, <<>>, <<>>),
     ServiceDef("api",    "", "context", <<"8080:80">>, <<>>, <<>>),
     ServiceDef("proxy",  "ghcr.io/acme/nginx-proxy:1.2", "nil",
                          <<"127.0.0.1:8443:443/tcp">>, <<>>, <<>>),
     ServiceDef("db",     "postgres:15", "nil", <<"5432:5432">>, <<>>, <<>>),
     ServiceDef("redis",  "acme/cache", "nil", <<"8080:8080">>, <<>>, <<>>),
     ServiceDef("worker", "", "context", <<>>, <<>>, <<"9000">>),
     ServiceDef("queue",  "busybox", "nil", <<"5672:5672", "15672:15672">>, <<>>, <<>>),
     ServiceDef("caddy",  "registry.local:5000/caddy:2", "nil", <<"2019">>, <<>>, <<>>),
     ServiceDef("job",    "alpine", "nil", <<>>, <<>>, <<>>),
     ServiceDef("app",    "python:3", "other", <<"9229:9229">>, <<"5000">>, <<>>),
     ServiceDef("range",  "", "context", <<"8000-8010:8000-8010/udp">>, <<>>, <<"7000">>),
     ServiceDef("_admin", "node", "nil", <<>>, <<>>, <<>>),
     ServiceDef("store",  "mongo:6", "nil", <<"8080:8080">>, <<>>, <<>>),
     ServiceDef("minio",  "nginx", "nil", <<"9000:9000">>, <<>>, <<>>),
     ServiceDef("sync",   "", "context", <<"host:x">>, <<>>, <<"6379", "9100">>),
     ServiceDef("cache",  "", "context", <<>>, <<>>, <<"11211">>),
     ServiceDef("site",   "httpd:2.4", "nil", <<"8081:80">>, <<>>, <<>>),
     ServiceDef("legacy", "bitnami/apache:2", "nil", <<>>, <<"8080">>, <<>>)}

DefNamed(name) == CHOOSE d \in ServiceDefs : d.name = Chars(name)

\* The paths handed to Adopt and Unadopt: whether each is a directory and
\* the services of its compose file ("none" without a compose file).
Dirs == {"shop", "blog", "data", "odd", "my app", "plain", "notes.txt"}

IsDir(dir) == dir # "notes.txt"

Manifest(dir) ==
    CASE dir = "shop"   -> {DefNamed("web"), DefNamed("api"), DefNamed("db")}
      [] dir = "blog"   -> {DefNamed("proxy")}
      [] dir = "data"   -> {DefNamed("db"), DefNamed("store"), DefNamed("job")}
      [] dir = "odd"    -> {DefNamed("web"), DefNamed("_admin")}
      [] dir = "my app" -> {DefNamed("worker")}
      [] OTHER          -> {}

\* findComposeFile: whether the directory holds a compose file.
findComposeFile(dir) == dir \notin {"plain", "notes.txt"}

\* filepath.Abs and filepath.Base of the path.
AbsDir(dir) == Chars("/srv/") \o Chars(dir)
BaseName(absDir) == SplitLast(absDir, "/")

\* The analysed services of each compose file, sorted by name.
Scanned ==
    [dir \in Dirs |->
        LET services == {analyzeService(d) : d \in Manifest(dir)}
        IN  CHOOSE seq \in Perms(services) :
                \A i \in 1..(Len(seq) - 1) : StrLess(seq[i].Name, seq[i + 1].Name)]

\* ScanComposeFile: the services of the directory's compose file.
ScanComposeFile(dir) == Scanned[dir]

\* The hostname arguments given to Adopt ("" asks for the default).
HostArgs == {Chars(""), Chars("dev.test"), Chars("bad host")}

----------------------------------------------------------------------------
(* Adopt and Unadopt (package adopt, adopt.go) on the registry file *)

\* yaml.Marshal of a Config whose records are kept: the header and one entry
\* per project, keys sorted.
MarshalRecords(conf) ==
    LET order == CHOOSE seq \in Perms(DOMAIN conf) :
                     \A i \in 1..(Len(seq) - 1) : StrLess(seq[i], seq[i + 1])
    IN  <<"projects:">> \o [i \in 1..Len(order) |-> [name |-> order[i], rec |-> conf[order[i]]]]

\* config.Load of such a file: a missing file is an empty registry.
LoadRecords(content) ==
    IF content = NoFile THEN <<>>
    ELSE [n \in {content[i].name : i \in 2..Len(content)} |->
             (CHOOSE i \in 2..Len(content) : content[i].name = n) ]

\* The records of a loaded registry file.
RecordsOf(content) ==
    LET byIndex == LoadRecords(content)
    IN  [n \in DOMAIN byIndex |-> content[byIndex[n]].rec]

\* cfg.Projects[projectName] = record
Upsert(conf, projectName, rec) ==
    [n \in DOMAIN conf \cup {projectName} |-> IF n = projectName THEN rec ELSE conf[n]]

\* delete(cfg.Projects, projectName)
Delete(conf, projectName) == [n \in DOMAIN conf \ {projectName} |-> conf[n]]

\* An Unadopt that finds every project.
NotAdoptedNever(conf, projectName) == FALSE

\* The check of Unadopt's modifier: the project is not in the registry.
NotAdopted(conf, projectName) == projectName \notin DOMAIN conf

\* The part of Adopt before the registry is touched: the error ("" for
\* none), the hostname, the HTTP services and the record to store.
Prepare(dir, hostname) ==
    LET absDir       == AbsDir(dir)
        projectName  == BaseName(absDir)
        host         == IF hostname = <<>> THEN projectName \o Chars(".localhost")
                        ELSE hostname
        httpServices == SelectSeq(ScanComposeFile(dir), LAMBDA s : s.IsHTTP)
        svcHostnames == assignHostnames(httpServices, host)
        failed(msg)  == [err |-> msg, projectName |-> projectName, hostname |-> <<>>,
                         http |-> <<>>, record |-> <<>>]
    IN  IF ~IsDir(dir) THEN failed("is not a directory")
        ELSE IF ~ValidateHostname(host) THEN failed("invalid hostname")
        ELSE IF ~findComposeFile(dir) THEN failed("no docker-compose.yml found")
        ELSE IF httpServices = <<>> THEN failed("no HTTP services detected")
        ELSE IF \E n \in DOMAIN svcHostnames : ~ValidateHostname(svcHostnames[n])
        THEN failed("invalid hostname for service")
        ELSE [err |-> "", projectName |-> projectName, hostname |-> host,
              http |-> httpServices,
              record |-> [Dir |-> absDir, ComposeProject |-> projectName,
                          Hostname |-> host, Services |-> svcHostnames]]

\* Prepare for each path and hostname argument of this model.
Prepared == [dir \in Dirs |-> [hostname \in HostArgs |-> Prepare(dir, hostname)]]

\* The end of Adopt: a failure or a dry run returns without persistence, else
\* the record is stored under the project name and the registry saved.
Finish(p, dryRun, content) ==
    IF p.err # "" \/ dryRun
    THEN [err |-> p.err, content |-> content, hostname |-> p.hostname, http |-> p.http]
    ELSE [err |-> "",
          content |-> CHOOSE data \in {MarshalRecords(conf) :
                          conf \in {Upsert(old, p.projectName, p.record) :
                              old \in {RecordsOf(content)}}} : TRUE,
          hostname |-> p.hostname, http |-> p.http]

\* Adopt(dir, hostname, dryRun) on a registry file with the given content:
\* the error ("" for none), the file afterwards, and the result's fields.
Adopt(dir, hostname, dryRun, content) ==
    CHOOSE r \in {Finish(p, dryRun, content) : p \in {Prepared[dir][hostname]}} : TRUE

\* Unadopt(dir) on a registry file with the given content.
Unadopt(dir, content) ==
    LET projectName == BaseName(AbsDir(dir))
        conf         == RecordsOf(content)
    IN  IF NotAdopted(conf, projectName)
        THEN [err |-> "is not adopted", content |-> content]
        ELSE [err |-> "", content |-> MarshalRecords(Delete(conf, projectName))]

\* A command calls Adopt.
AdoptCall ==
    /\ \E dir \in Dirs, hostname \in HostArgs, dryRun \in BOOLEAN :
          \E r \in {Adopt(dir, hostname, dryRun, files[TargetPath])} :
              /\ inp' = [f |-> "Adopt", dir |-> dir, hostname |-> hostname,
                         dryRun |-> dryRun]
              /\ outp' = [f |-> "Adopt", err |-> r.err, hostname |-> r.hostname,
                          http |-> r.http]
              /\ files' = [files EXCEPT ![TargetPath] = r.content]
    /\ UNCHANGED <<spc, lockHolder, cfg, result, observed>>
    /\ UNCHANGED <<watcherVars, envVars, tableVars, guardVars>>

\* A command calls Unadopt.
UnadoptCall ==
    /\ \E dir \in Dirs :
          \E r \in {Unadopt(dir, files[TargetPath])} :
              /\ inp' = [f |-> "Unadopt", dir |-> dir]
              /\ outp' = [f |-> "Unadopt", err |-> r.err]
              /\ files' = [files EXCEPT ![TargetPath] = r.content]
    /\ UNCHANGED <<spc, lockHolder, cfg, result, observed>>
    /\ UNCHANGED <<watcherVars, envVars, tableVars, guardVars>>

\* The watcher is not running.
WatcherIdle ==
    /\ pc = "returned"
    /\ routes = EmptyTable
    /\ subscribed = FALSE
    /\ queue = <<>>
    /\ emitted = 0
    /\ ev = Handling(0, "", "none", "none", {})
    /\ last = [c \in Containers |-> "none"]
    /\ retval = "none"
    /\ cstate = [c \in Containers |-> "none"]
    /\ gw = "absent"
    /\ attached = {}
    /\ registry = NoFile
    /\ caddyfile = StaleCaddyfile
    /\ cancelled = FALSE
    /\ streamErr = FALSE

InitAdopt ==
    /\ WatcherIdle
    /\ StoreIdle
    /\ GuardIdle
    /\ OthersIdle

NextAdopt == AdoptCall \/ UnadoptCall

SpecAdopt == InitAdopt /\ [][NextAdopt]_vars

----------------------------------------------------------------------------
(* Properties of Adopt and Unadopt *)

\* The project directory whose leaf name is the key of a record.
DirOf(projectName) == CHOOSE dir \in Dirs : BaseName(AbsDir(dir)) = projectName

\* The HTTP services of a project directory, in the order Adopt sees them.
HTTPServices == [dir \in Dirs |-> SelectSeq(ScanComposeFile(dir), LAMBDA s : s.IsHTTP)]
HTTPServicesOf(dir) == HTTPServices[dir]

\* The record's mapping is the assignment the property describes for the
\* services: one entry per service, all valid hostnames, the elected primary
\* alone on the base hostname, every other service on "<name>.<base>".
RecordWellFormed(rec, services) ==
    LET primary == services[FindPrimaryService(services) + 1].Name
    IN  /\ DOMAIN rec.Services = {services[i].Name : i \in 1..Len(services)}
        /\ \A s \in DOMAIN rec.Services : ValidateHostname(rec.Services[s])
        /\ {s \in DOMAIN rec.Services : rec.Services[s] = rec.Hostname} = {primary}
        /\ \A s \in DOMAIN rec.Services \ {primary} :
              rec.Services[s] = s \o Chars(".") \o rec.Hostname
        /\ Len(services) = 1 => rec.Services[services[1].Name] = rec.Hostname

\* C14: every record in the registry file that Adopt wrote maps each HTTP
\* service of the project to a valid hostname, the elected primary (the sole
\* service when there is one) to the base hostname and no other service to
\* it, and every other service s to "s.<base hostname>".
C14_RecordInvariant ==
    \A n \in DOMAIN RecordsOf(files[TargetPath]) :
        RecordWellFormed(RecordsOf(files[TargetPath])[n], HTTPServicesOf(DirOf(n)))

\* Adopt has just persisted a record for a project with two HTTP services,
\* next to the record of a project with one.
C14_Witness ==
    /\ outp.f = "Adopt"
    /\ outp.err = ""
    /\ ~inp.dryRun
    /\ Len(outp.http) = 2
    /\ \E n \in DOMAIN RecordsOf(files[TargetPath]) : Len(HTTPServicesOf(DirOf(n))) = 1

\* C16: a dry-run Adopt, a failing Adopt and an Unadopt of a project that is
\* not in the registry leave the registry file as it was (an absent file
\* stays absent), the failing ones with an error for every cause of failure;
\* a successful Unadopt removes the record keyed by the directory's leaf name
\* and no other.
C16_RegistryFrame ==
    [][ /\ (outp'.f = "Adopt" /\ (inp'.dryRun \/ outp'.err # "")) =>
              files' = files
        /\ (outp'.f = "Adopt") =>
              (outp'.err # "" <=>
                  \/ ~IsDir(inp'.dir)
                  \/ ~ValidateHostname(IF inp'.hostname = <<>>
                                       THEN Chars(inp'.dir) \o Chars(".localhost")
                                       ELSE inp'.hostname)
                  \/ ~findComposeFile(inp'.dir)
                  \/ HTTPServicesOf(inp'.dir) = <<>>
                  \/ \E i \in 1..Len(HTTPServicesOf(inp'.dir)) :
                        /\ i - 1 # FindPrimaryService(HTTPServicesOf(inp'.dir))
                        /\ ~ValidateHostname(HTTPServicesOf(inp'.dir)[i].Name
                                             \o Chars(".dev.test")))
        /\ (outp'.f = "Unadopt" /\ Chars(inp'.dir) \notin DOMAIN RecordsOf(files[TargetPath])) =>
              (files' = files /\ outp'.err # "")
        /\ (outp'.f = "Unadopt" /\ Chars(inp'.dir) \in DOMAIN RecordsOf(files[TargetPath])) =>
              /\ outp'.err = ""
              /\ RecordsOf(files'[TargetPath]) =
                    Delete(RecordsOf(files[TargetPath]), Chars(inp'.dir)) ]_vars

\* An Unadopt of a project that is not adopted has failed while the registry
\* file holds the record of another project.
C16_Witness ==
    /\ outp.f = "Unadopt"
    /\ outp.err # ""
    /\ Cardinality(DOMAIN RecordsOf(files[TargetPath])) = 1

----------------------------------------------------------------------------
(* Calls of the inspection functions on inputs drawn from bounded sets *)

\* The HTTP services found in the manifests of this model.
HTTPUniverse == {cs \in {analyzeService(d) : d \in ServiceDefs} : cs.IsHTTP}

\* Sequences of up to n different elements of S.
RECURSIVE DistinctSeqs(_, _)
DistinctSeqs(S, n) ==
    IF n = 0 THEN {<<>>}
    ELSE {<<>>} \cup UNION {{<<x>> \o q : q \in DistinctSeqs(S \ {x}, n - 1)} : x \in S}

\* The lists handed to FindPrimaryService.
ServiceLists == DistinctSeqs(HTTPUniverse, MaxServices) \ {<<>>}

\* The port keys of the container records handed to DetectHTTPPort.
PortKeys ==
    {Chars("80/tcp"), Chars("8443/tcp"), Chars("9000/tcp"), Chars("10000/tcp"),
     Chars("5432/tcp"), Chars("15672/tcp"), Chars("81/tcp"), Chars("+81/tcp"),
     Chars("900/udp")}

\* The container records: the service label, the declared ports and at most
\* one bound port.
ContainerRecords ==
    [Service      : {Chars("web"), Chars("redis"), Chars("")},
     ExposedPorts : {S \in SUBSET PortKeys : Cardinality(S) <= MaxPorts},
     Ports        : {S \in SUBSET PortKeys : Cardinality(S) <= 1}]

InspectInputs ==
    {[f |-> "FindPrimaryService", services |-> l] : l \in ServiceLists}
    \cup {[f |-> "analyzeService", svc |-> d] : d \in ServiceDefs}
    \cup {[f |-> "DetectHTTPPort", info |-> r] : r \in ContainerRecords}

CallFindPrimaryService ==
    /\ inp.f = "FindPrimaryService"
    /\ outp.f = "none"
    /\ outp' = [f |-> inp.f, ret |-> FindPrimaryService(inp.services)]
    /\ UNCHANGED <<inp, watcherVars, envVars, storeVars, tableVars, guardVars>>

CallAnalyzeService ==
    /\ inp.f = "analyzeService"
    /\ outp.f = "none"
    /\ outp' = [f |-> inp.f, ret |-> analyzeService(inp.svc)]
    /\ UNCHANGED <<inp, watcherVars, envVars, storeVars, tableVars, guardVars>>

CallDetectHTTPPort ==
    /\ inp.f = "DetectHTTPPort"
    /\ outp.f = "none"
    /\ \E port \in DetectHTTPPorts(inp.info) : outp' = [f |-> inp.f, ret |-> port]
    /\ UNCHANGED <<inp, watcherVars, envVars, storeVars, tableVars, guardVars>>

InitInspect ==
    /\ WatcherIdle
    /\ StoreIdle
    /\ GuardIdle
    /\ tpc = <<>>
    /\ mu = 0
    /\ tloc = <<>>
    /\ tret = <<>>
    /\ tseen = <<>>
    /\ tcalls = 0
    /\ inp \in InspectInputs
    /\ outp = [f |-> "none"]

NextInspect == CallFindPrimaryService \/ CallAnalyzeService \/ CallDetectHTTPPort

SpecInspect == InitInspect /\ [][NextInspect]_vars

\* The place of a service in the rule order of the primary election: the
\* image keywords caddy, nginx, httpd, apache, then the names web, app,
\* caddy, nginx, then port 80, then none.
Rank(s) ==
    LET base == extractImageBase(s.Image)
    IN  CASE Contains(base, Chars("caddy"))  -> 1
          [] Contains(base, Chars("nginx"))  -> 2
          [] Contains(base, Chars("httpd"))  -> 3
          [] Contains(base, Chars("apache")) -> 4
          [] s.Name = Chars("web")           -> 5
          [] s.Name = Chars("app")           -> 6
          [] s.Name = Chars("caddy")         -> 7
          [] s.Name = Chars("nginx")         -> 8
          [] s.Port = Chars("80")            -> 9
          [] OTHER                           -> 10

\* C15: FindPrimaryService returns the lowest index among the services that
\* match the earliest rule any service of the list matches (image keywords
\* in their order, then names in their order, then port 80), and index 0
\* when no rule matches.
C15_RuleOrder ==
    (outp.f = "FindPrimaryService") =>
        LET services == inp.services
            r        == outp.ret + 1
        IN  /\ r \in 1..Len(services)
            /\ \A j \in 1..Len(services) : Rank(services[r]) <= Rank(services[j])
            /\ \A j \in 1..(r - 1) : Rank(services[j]) > Rank(services[r])

\* An image match at index 1 has won over a name match at index 0.
C15_Witness ==
    /\ outp.f = "FindPrimaryService"
    /\ outp.ret = 1
    /\ Rank(inp.services[1]) \in 5..8
    /\ Rank(inp.services[2]) \in 1..4

\* The classification the rule list gives for an image base name, a service
\* name and the observed ports in their order.
Classified(base, name, ports) ==
    LET http(port) == [IsHTTP |-> TRUE, Port |-> port]
        nonHTTP    == [IsHTTP |-> FALSE, Port |-> <<>>]
        knownAt    == {i \in 1..Len(ports) : ports[i] \in knownHTTPPorts}
        otherAt    == {i \in 1..Len(ports) : ports[i] \notin knownNonHTTPPorts}
        first(S)   == CHOOSE i \in S : \A j \in S : i <= j
    IN  CASE base \in nonHTTPImages     -> nonHTTP
          [] base \in DOMAIN httpImages -> http(httpImages[base])
          [] name \in nonHTTPImages     -> nonHTTP
          [] knownAt # {}               -> http(ports[first(knownAt)])
          [] otherAt # {}               -> http(ports[first(otherAt)])
          [] OTHER                      -> nonHTTP

\* C17: analyzeService classifies by the first rule that matches: a non-HTTP
\* image, then an HTTP image with its mapped port, then a non-HTTP service
\* name, then the first observed port that is a known HTTP port, then the
\* first observed port that is not a known non-HTTP port, else non-HTTP.
C17_Classification ==
    (outp.f = "analyzeService") =>
        LET c == Classified(extractImageBase(inp.svc.image), inp.svc.name, outp.ret.Ports)
        IN  /\ outp.ret.IsHTTP = c.IsHTTP
            /\ outp.ret.Port = c.Port
            /\ outp.ret.Name = inp.svc.name

\* A service named after a non-HTTP image has been classified as HTTP on
\* port 80 because its image is an HTTP image.
C17_Witness ==
    /\ outp.f = "analyzeService"
    /\ inp.svc.name \in nonHTTPImages
    /\ outp.ret.IsHTTP
    /\ outp.ret.Port = Chars("80")
    /\ Chars("80") \notin {outp.ret.Ports[i] : i \in 1..Len(outp.ret.Ports)}

\* The port the rule list names for a container record: none for a skipped
\* service or without ports, else the first port of the priority list that
\* is present, else the numerically smallest port outside the skip set.
RulePort(info) ==
    LET union   == exposedPorts(info)
        present == {i \in 1..Len(httpPorts) : httpPorts[i] \in union}
        others  == union \ skipPorts
    IN  IF info.Service \in skipServices \/ union = {} THEN <<>>
        ELSE IF present # {}
        THEN httpPorts[CHOOSE i \in present : \A j \in present : i <= j]
        ELSE IF others = {} THEN <<>>
        ELSE CHOOSE p \in others : \A q \in others : AtoiVal(p) <= AtoiVal(q)

\* C20: DetectHTTPPort is a function of the container record: whatever the
\* call returns is the one port the rule list names for the record.
C20_DetectDeterministic ==
    (inp.f = "DetectHTTPPort") => DetectHTTPPorts(inp.info) = {RulePort(inp.info)}

----------------------------------------------------------------------------
(* Compose documents as text and as yaml.Node trees (yaml.v3) *)

\* A line of a YAML document: its indentation, whether it is a sequence item
\* ("- value") or a mapping entry ("key: &anchor value"), and its parts.  A
\* mapping entry without value is followed by the lines of its block.
YLine(ind, item, key, anchor, val) ==
    [ind |-> ind, item |-> item, key |-> key, anchor |-> anchor, val |-> val]

Entry(ind, key, val)          == YLine(ind, FALSE, key, "", val)
Anchored(ind, key, anchor, val) == YLine(ind, FALSE, key, anchor, val)
Item(ind, val)                == YLine(ind, TRUE, "", "", val)

\* The alias texts of the documents and the anchors they name.
AliasOf == [t \in {"*base", "*web"} |-> IF t = "*base" THEN "base" ELSE "web"]

\* A yaml.Node: Kind, Value, Anchor and Content (for a mapping, the key and
\* value nodes in turn).
Node(kind, value, anchor, content) ==
    [kind |-> kind, value |-> value, anchor |-> anchor, content |-> content]

\* The elements of a set of numbers in ascending order.
Ascending(S) ==
    [k \in 1..Cardinality(S) |-> CHOOSE x \in S : Cardinality({y \in S : y < x}) = k - 1]

RECURSIVE Flatten(_)
Flatten(seqs) == IF seqs = <<>> THEN <<>> ELSE Head(seqs) \o Flatten(Tail(seqs))

\* The entries of a block that start at its indentation: every item of a
\* sequence, every key of a mapping (items at the indentation of a key
\* belong to the key before them).
Heads(lines) ==
    Ascending({i \in 1..Len(lines) :
                  /\ lines[i].ind = lines[1].ind
                  /\ lines[i].item = lines[1].item})

\* The lines under the k-th entry of a block.
Under(lines, k) ==
    LET heads == Heads(lines)
        next  == IF k < Len(heads) THEN heads[k + 1] ELSE Len(lines) + 1
    IN  SubSeq(lines, heads[k] + 1, next - 1)

\* Whether the parser accepts a block: nothing is indented less than its
\* first line, a sequence holds scalar items only, and only an entry
\* without value has lines under it, which form a block in turn.
RECURSIVE WellFormed(_)
WellFormed(lines) ==
    /\ \A i \in 1..Len(lines) : lines[i].ind >= lines[1].ind
    /\ \A k \in 1..Len(Heads(lines)) :
          LET head  == lines[Heads(lines)[k]]
              under == Under(lines, k)
          IN  IF under = <<>> THEN head.item \/ head.val # ""
              ELSE /\ ~head.item
                   /\ head.val = ""
                   /\ \/ under[1].ind > head.ind
                      \/ under[1].ind = head.ind /\ under[1].item
                   /\ WellFormed(under)

\* The node of a block of lines.
RECURSIVE ParseBlock(_)
ParseBlock(lines) ==
    LET heads == Heads(lines)
        value(k) ==
            LET head  == lines[heads[k]]
                under == Under(lines, k)
            IN  IF under # <<>>
                THEN [ParseBlock(under) EXCEPT !.anchor = head.anchor]
                ELSE IF head.val \in DOMAIN AliasOf
                THEN Node("alias", AliasOf[head.val], "", <<>>)
                ELSE IF head.val = "{}"
                THEN Node("map", "", head.anchor, <<>>)
                ELSE Node("scalar", head.val, head.anchor, <<>>)
    IN  IF lines[1].item
        THEN Node("seq", "", "", [k \in 1..Len(heads) |-> value(k)])
        ELSE Node("map", "", "",
                  Flatten([k \in 1..Len(heads) |->
                      <<Node("scalar", lines[heads[k]].key, "", <<>>), value(k)>>]))

\* yaml.Unmarshal(data, &doc): an error for text the parser rejects, the zero
\* Node for an empty input, else a document node holding the root.
YAMLUnmarshal(data) ==
    IF data = <<>> THEN [err |-> FALSE, doc |-> Node("zero", "", "", <<>>)]
    ELSE IF ~WellFormed(data) THEN [err |-> TRUE, doc |-> Node("zero", "", "", <<>>)]
    ELSE [err |-> FALSE, doc |-> Node("doc", "", "", <<ParseBlock(data)>>)]

\* The text of a node written on the line of its key or item.
Inline(n) ==
    CASE n.kind = "scalar" -> n.value
      [] n.kind = "alias"  -> CHOOSE t \in DOMAIN AliasOf : AliasOf[t] = n.value
      [] n.kind = "map"    -> "{}"
      [] OTHER             -> "[]"

\* The lines the encoder writes for a node at an indentation; nested blocks
\* are indented by four columns.
RECURSIVE EncodeNode(_, _)
EncodeNode(n, ind) ==
    IF n.kind = "map"
    THEN Flatten([k \in 1..(Len(n.content) \div 2) |->
             LET key == n.content[2 * k - 1]
                 val == n.content[2 * k]
             IN  IF val.kind \in {"map", "seq"} /\ val.content # <<>>
                 THEN <<Anchored(ind, key.value, val.anchor, "")>>
                      \o EncodeNode(val, ind + 4)
                 ELSE <<Anchored(ind, key.value, val.anchor, Inline(val))>>])
    ELSE IF n.kind = "seq"
    THEN [k \in 1..Len(n.content) |-> Item(ind, Inline(n.content[k]))]
    ELSE <<Item(ind, Inline(n))>>

\* yaml.Marshal(&doc)
YAMLMarshal(doc) == EncodeNode(doc.content[1], 0)

----------------------------------------------------------------------------
(* Port stripping (package start, strip.go) *)

\* A stripping that removes only the first ports entry of a service.
stripFirstPortsFromService(svc) ==
    LET pairs == 1..(Len(svc.content) \div 2)
        ports == {k \in pairs : svc.content[2 * k - 1].value = "ports"}
        kept  == Ascending({k \in pairs : k \notin ports \/ \E j \in ports : j < k})
    IN  [svc EXCEPT !.content =
            Flatten([i \in 1..Len(kept) |->
                <<svc.content[2 * kept[i] - 1], svc.content[2 * kept[i]]>>])]

\* stripPortsFromService: the service mapping without the pairs whose key is
\* "ports".
stripPortsFromService(svc) ==
    LET kept == Ascending({k \in 1..(Len(svc.content) \div 2) :
                              svc.content[2 * k - 1].value # "ports"})
    IN  [svc EXCEPT !.content =
            Flatten([i \in 1..Len(kept) |->
                <<svc.content[2 * kept[i] - 1], svc.content[2 * kept[i]]>>])]

\* The inner loop of StripPorts over the pairs of a services mapping.
StripServices(services, keepSet) ==
    [services EXCEPT !.content =
        [i \in 1..Len(services.content) |->
            IF i % 2 = 0 /\ i <= Len(services.content)
            THEN LET svcName == services.content[i - 1].value
                     svcNode == services.content[i]
                 IN  IF svcName \in keepSet THEN svcNode
                     ELSE IF svcNode.kind # "map" THEN svcNode
                     ELSE stripPortsFromService(svcNode)
            ELSE services.content[i]]]

\* The outer loop of StripPorts over the pairs of the root mapping.
StripRoot(root, keepSet) ==
    [root EXCEPT !.content =
        [i \in 1..Len(root.content) |->
            IF i % 2 = 0 /\ root.content[i - 1].value = "services"
                         /\ root.content[i].kind = "map"
            THEN StripServices(root.content[i], keepSet)
            ELSE root.content[i]]]

\* StripPorts(data, keepPorts): an error, or the bytes returned.
StripPorts(data, keepPorts) ==
    LET parsed == YAMLUnmarshal(data)
        doc    == parsed.doc
    IN  IF parsed.err THEN [err |-> TRUE, out |-> <<>>]
        ELSE IF doc.kind # "doc" \/ Len(doc.content) = 0 THEN [err |-> FALSE, out |-> data]
        ELSE IF doc.content[1].kind # "map" THEN [err |-> FALSE, out |-> data]
        ELSE [err |-> FALSE,
              out |-> YAMLMarshal([doc EXCEPT !.content =
                                      <<StripRoot(doc.content[1], keepPorts)>>])]

----------------------------------------------------------------------------
(* The compose documents and keep-sets handed to StripPorts *)

\* Two services with ports and other keys, indented by two columns.
DocBasic ==
    <<Entry(0, "services", ""),
      Entry(2, "web", ""),
      Entry(4, "image", "nginx"),
      Entry(4, "ports", ""),
      Item(6, "\"80:80\""),
      Entry(4, "volumes", ""),
      Item(6, "./html:/usr/share/nginx/html"),
      Entry(2, "db", ""),
      Entry(4, "image", "postgres"),
      Entry(4, "ports", ""),
      Item(6, "\"5432:5432\""),
      Entry(4, "environment", ""),
      Entry(6, "POSTGRES_DB", "mydb")>>

\* Variable references, expose, profiles in flow style, top-level networks
\* and volumes, sequences at the indentation of their key.
DocFull ==
    <<Entry(0, "services", ""),
      Entry(2, "web", ""),
      Entry(4, "build", "./backend"),
      Entry(4, "profiles", "[dev]"),
      Entry(4, "ports", ""),
      Item(4, "\"8000:8000\""),
      Entry(4, "environment", ""),
      Item(4, "FINLAB_API_TOKEN=${FINLAB_API_TOKEN}"),
      Entry(4, "expose", ""),
      Item(4, "\"80\""),
      Entry(4, "networks", ""),
      Item(4, "app-network"),
      Entry(0, "networks", ""),
      Entry(2, "app-network", ""),
      Entry(4, "driver", "bridge"),
      Entry(0, "volumes", ""),
      Entry(2, "caddy_data", "{}")>>

\* No services key.
DocNoServices ==
    <<Entry(0, "volumes", ""),
      Entry(2, "data", ""),
      Entry(4, "driver", "local")>>

\* A root that is a sequence.
DocSequence == <<Item(0, "a"), Item(0, "b")>>

\* A services key whose value is not a mapping.
DocScalarServices == <<Entry(0, "version", "\"3\""), Entry(0, "services", "none")>>

\* A service without ports, one whose value is not a mapping, and one with
\* ports only; written as the encoder writes it.
DocEncoded ==
    <<Entry(0, "services", ""),
      Entry(4, "worker", ""),
      Entry(8, "command", "python -m worker"),
      Entry(4, "web", "disabled"),
      Entry(4, "db", ""),
      Entry(8, "ports", "[\"5432:5432\"]")>>

\* A service whose ports key occurs twice.
DocTwice ==
    <<Entry(0, "services", ""),
      Entry(2, "web", ""),
      Entry(4, "ports", ""),
      Item(6, "\"80:80\""),
      Entry(4, "image", "nginx"),
      Entry(4, "ports", "[\"443:443\"]")>>

\* A service that is an alias of a template outside the services.
DocTemplate ==
    <<Anchored(0, "x-base", "base", ""),
      Entry(2, "image", "nginx"),
      Entry(2, "ports", ""),
      Item(4, "\"80:80\""),
      Entry(0, "services", ""),
      Entry(2, "web", "*base"),
      Entry(2, "db", ""),
      Entry(4, "image", "postgres")>>

\* A service that is an alias of another service.
DocShared ==
    <<Entry(0, "services", ""),
      Anchored(2, "web", "web", ""),
      Entry(4, "image", "nginx"),
      Entry(4, "ports", ""),
      Item(6, "\"80:80\""),
      Entry(2, "admin", "*web")>>

\* Text the parser rejects: a block under an entry that has a value.
DocBroken ==
    <<Entry(0, "services", "x"),
      Entry(2, "web", "")>>

Documents ==
    {<<>>, DocBasic, DocFull, DocNoServices, DocSequence, DocScalarServices,
     DocEncoded, DocTwice, DocTemplate, DocShared, DocBroken}

ServiceNames == {"web", "db", "admin"}

KeepSets == {K \in SUBSET ServiceNames : Cardinality(K) <= MaxKeep}

\* StripPorts is called on a document.
CallStripPorts ==
    /\ inp.f = "StripPorts"
    /\ outp.f = "none"
    /\ LET r == StripPorts(inp.data, inp.keepPorts)
       IN  outp' = [f |-> inp.f, pass |-> 1, err |-> r.err, first |-> r.out, out |-> r.out]
    /\ UNCHANGED <<inp, watcherVars, envVars, storeVars, tableVars, guardVars>>

\* StripPorts is called on what the first call returned.
CallStripPortsAgain ==
    /\ outp.f = "StripPorts"
    /\ outp.pass = 1
    /\ ~outp.err
    /\ LET r == StripPorts(outp.out, inp.keepPorts)
       IN  outp' = [outp EXCEPT !.pass = 2, !.err = r.err, !.out = r.out]
    /\ UNCHANGED <<inp, watcherVars, envVars, storeVars, tableVars, guardVars>>

InitStrip ==
    /\ WatcherIdle
    /\ StoreIdle
    /\ GuardIdle
    /\ tpc = <<>>
    /\ mu = 0
    /\ tloc = <<>>
    /\ tret = <<>>
    /\ tseen = <<>>
    /\ tcalls = 0
    /\ inp \in {[f |-> "StripPorts", data |-> d, keepPorts |-> K] :
                   d \in Documents, K \in KeepSets}
    /\ outp = [f |-> "none"]

NextStrip == CallStripPorts \/ CallStripPortsAgain

SpecStrip == InitStrip /\ [][NextStrip]_vars

\* C18: stripping what StripPorts returned, with the same keep-set, succeeds
\* and returns the same bytes.
C18_Idempotent ==
    (outp.f = "StripPorts" /\ outp.pass = 2) => (~outp.err /\ outp.out = outp.first)

\* The second call has returned for a document from which the first call
\* removed a ports entry and which it wrote with another indentation.
C18_Witness ==
    /\ outp.f = "StripPorts"
    /\ outp.pass = 2
    /\ Len(outp.first) < Len(inp.data)
    /\ \E i \in 1..Len(outp.first) : outp.first[i].ind # inp.data[i].ind

\* The root mapping of a document text.
RootOf(data) == YAMLUnmarshal(data).doc.content[1]

\* Whether the text is a document with a mapping at its root.
HasMappingRoot(data) ==
    LET parsed == YAMLUnmarshal(data)
    IN  ~parsed.err /\ parsed.doc.kind = "doc" /\ parsed.doc.content[1].kind = "map"

RECURSIVE NodesOf(_)
NodesOf(n) == {n} \cup UNION {NodesOf(n.content[i]) : i \in 1..Len(n.content)}

\* The node an alias stands for: the node of the document that carries the
\* anchor.
Resolve(root, n) ==
    IF n.kind = "alias"
    THEN CHOOSE x \in NodesOf(root) : x.anchor = n.value
    ELSE n

\* The pairs of a mapping whose key is not "ports", in their order.
WithoutPorts(content) ==
    LET kept == Ascending({k \in 1..(Len(content) \div 2) : content[2 * k - 1].value # "ports"})
    IN  Flatten([i \in 1..Len(kept) |-> <<content[2 * kept[i] - 1], content[2 * kept[i]]>>])

\* What one service of the output must be, given the same service of the
\* input: unchanged in the keep-set, else the same mapping without ports.
ServiceStripped(name, before, after, keepSet) ==
    IF name \in keepSet \/ before.kind # "map" THEN after = before
    ELSE /\ after.kind = "map"
         /\ after.content = WithoutPorts(before.content)

\* C19: in what StripPorts returns, every service outside the keep-set is
\* the service of the input without its ports entries, every service in the
\* keep-set is the service of the input, and every other key and value of
\* the document is that of the input in the same order; a document without a
\* services mapping comes back with nothing removed.
C19_StripFrame ==
    (outp.f = "StripPorts" /\ outp.pass = 1 /\ ~outp.err) =>
        IF ~HasMappingRoot(inp.data) THEN outp.out = inp.data
        ELSE LET before == RootOf(inp.data)
                 after  == RootOf(outp.out)
             IN  /\ Len(after.content) = Len(before.content)
                 /\ \A i \in 1..Len(before.content) :
                       IF i % 2 = 0 /\ before.content[i - 1].value = "services"
                                    /\ before.content[i].kind = "map"
                       THEN LET old == before.content[i].content
                                new == after.content[i].content
                            IN  /\ after.content[i].kind = "map"
                                /\ Len(new) = Len(old)
                                /\ \A j \in 1..Len(old) :
                                      IF j % 2 = 1 THEN new[j] = old[j]
                                      ELSE ServiceStripped(old[j - 1].value,
                                               Resolve(before, old[j]),
                                               Resolve(after, new[j]),
                                               inp.keepPorts)
                       ELSE after.content[i] = before.content[i]

----------------------------------------------------------------------------
(* Singleton guard (cmd/caddy-atc/main.go): runWatcher, stopWatcher,       *)
(* isWatcherRunning, isCaddyATCProcess                                     *)

\* Process identifiers the operating system hands out (and reuses).
MaxPids == 3
Pids == 1..MaxPids

\* strconv.Itoa of a process identifier.
Itoa(n) == IF n < 10 THEN <<DigitSeq[n + 1]>>
           ELSE <<DigitSeq[(n \div 10) + 1], DigitSeq[(n % 10) + 1]>>

\* What holds a process identifier: nothing, a reconciler (by its position
\* in runWatcher), another process whose command line mentions the program
\* ("peer", e.g. tail -f ~/.caddy-atc/watcher.log) or one that does not.
ProcStates == {"none", "starting", "running", "stopping", "peer", "foreign"}
Reconciler(st) == st \in {"starting", "running", "stopping"}

\* /proc/<pid>/cmdline of a process.
Cmdline(st) ==
    CASE Reconciler(st) -> Chars("caddy-atc up")
      [] st = "peer"    -> Chars("tail -f .caddy-atc/watcher.log")
      [] OTHER          -> Chars("sleep 600")

\* os.ReadFile("/proc/<pid>/cmdline"): fails where there is no such file (no
\* process, no procfs on this host).
ReadCmdline(st, procfs) ==
    IF ~procfs \/ st = "none" THEN [err |-> TRUE, data |-> <<>>]
    ELSE [err |-> FALSE, data |-> Cmdline(st)]

\* isCaddyATCProcess: a command line that cannot be read counts as ours.
isCaddyATCProcess(read) ==
    IF read.err THEN TRUE ELSE Contains(read.data, Chars("caddy-atc"))

\* How the command was seen by the check.
Seen(read) ==
    IF read.err THEN "unreadable"
    ELSE IF Contains(read.data, Chars("caddy-atc")) THEN "contains" ELSE "lacks"

\* A down (stopWatcher) or status (isWatcherRunning) invocation at its start.
Invocation(f) ==
    [f |-> f, at |-> "read", pid |-> 0, alive |-> FALSE, cmd |-> "unread",
     hit |-> "none", ret |-> "none"]

Finished(c, ret) == [c EXCEPT !.at = "done", !.ret = ret]

\* caddy-atc up: gateway.Up is idempotent, then runWatcher is entered by a
\* new process.
Up(p) ==
    /\ procs[p] = "none"
    /\ procs' = [procs EXCEPT ![p] = "starting"]
    /\ UNCHANGED <<pidfile, cli>>
    /\ UNCHANGED <<watcherVars, envVars, storeVars, tableVars, callVars>>

\* runWatcher: os.WriteFile(PidPath, Itoa(Getpid())); a failure is logged
\* and the reconciler runs without the file.
WritePidFile(p) ==
    /\ procs[p] = "starting"
    /\ procs' = [procs EXCEPT ![p] = "running"]
    /\ \E ok \in BOOLEAN : pidfile' = IF ok THEN Itoa(p) ELSE pidfile
    /\ UNCHANGED cli
    /\ UNCHANGED <<watcherVars, envVars, storeVars, tableVars, callVars>>

\* watcher.New fails, or Run returns (SIGINT, stream error).
RunReturns(p) ==
    /\ procs[p] = "running"
    /\ procs' = [procs EXCEPT ![p] = "stopping"]
    /\ UNCHANGED <<pidfile, cli>>
    /\ UNCHANGED <<watcherVars, envVars, storeVars, tableVars, callVars>>

\* runWatcher: the deferred os.Remove(PidPath), then the process ends.
RemovePidFile(p) ==
    /\ procs[p] = "stopping"
    /\ procs' = [procs EXCEPT ![p] = "none"]
    /\ pidfile' = NoFile
    /\ UNCHANGED cli
    /\ UNCHANGED <<watcherVars, envVars, storeVars, tableVars, callVars>>

\* A process ends without running its deferred calls (SIGKILL, crash, power
\* loss), or another process ends.
Killed(p) ==
    /\ procs[p] # "none"
    /\ procs' = [procs EXCEPT ![p] = "none"]
    /\ UNCHANGED <<pidfile, cli>>
    /\ UNCHANGED <<watcherVars, envVars, storeVars, tableVars, callVars>>

\* Another program starts and is given a free identifier.
OtherStarts(p) ==
    /\ procs[p] = "none"
    /\ \E st \in {"peer", "foreign"} : procs' = [procs EXCEPT ![p] = st]
    /\ UNCHANGED <<pidfile, cli>>
    /\ UNCHANGED <<watcherVars, envVars, storeVars, tableVars, callVars>>

\* caddy-atc down or caddy-atc status is invoked.
Invoke ==
    /\ cli.at \in {"idle", "done"}
    /\ \E f \in {"down", "status"} : cli' = Invocation(f)
    /\ UNCHANGED <<procs, pidfile>>
    /\ UNCHANGED <<watcherVars, envVars, storeVars, tableVars, callVars>>

\* os.ReadFile(PidPath) and strconv.Atoi: stopWatcher removes a file that
\* holds no number.
ReadPidFile ==
    /\ cli.at = "read"
    /\ IF pidfile = NoFile
       THEN /\ cli' = Finished(cli, "no_file")
            /\ UNCHANGED pidfile
       ELSE IF ~AtoiOK(pidfile)
       THEN /\ cli' = Finished(cli, "not_a_number")
            /\ pidfile' = IF cli.f = "down" THEN NoFile ELSE pidfile
       ELSE /\ cli' = [cli EXCEPT !.at = "probe", !.pid = AtoiVal(pidfile)]
            /\ UNCHANGED pidfile
    /\ UNCHANGED procs
    /\ UNCHANGED <<watcherVars, envVars, storeVars, tableVars, callVars>>

\* proc.Signal(syscall.Signal(0)): stopWatcher removes the file of a process
\* that is gone.
Probe ==
    /\ cli.at = "probe"
    /\ LET alive == cli.pid \in Pids /\ procs[cli.pid] # "none"
       IN  IF alive
           THEN /\ cli' = [cli EXCEPT !.at = "cmdline", !.alive = TRUE]
                /\ UNCHANGED pidfile
           ELSE /\ cli' = Finished(cli, "stale")
                /\ pidfile' = IF cli.f = "down" THEN NoFile ELSE pidfile
    /\ UNCHANGED procs
    /\ UNCHANGED <<watcherVars, envVars, storeVars, tableVars, callVars>>

\* isCaddyATCProcess(pid): isWatcherRunning returns its result, stopWatcher
\* removes the file when it is false.
CheckCmdline ==
    /\ cli.at = "cmdline"
    /\ \E procfs \in BOOLEAN :
          LET read == ReadCmdline(procs[cli.pid], procfs)
              c    == [cli EXCEPT !.cmd = Seen(read)]
          IN  IF cli.f = "status"
              THEN /\ cli' = Finished(c, IF isCaddyATCProcess(read)
                                         THEN "running" ELSE "stopped")
                   /\ UNCHANGED pidfile
              ELSE IF isCaddyATCProcess(read)
              THEN /\ cli' = [c EXCEPT !.at = "signal"]
                   /\ UNCHANGED pidfile
              ELSE /\ cli' = Finished(c, "not_ours")
                   /\ pidfile' = NoFile
    /\ UNCHANGED procs
    /\ UNCHANGED <<watcherVars, envVars, storeVars, tableVars, callVars>>

\* What SIGTERM does to a process: a reconciler past signal.NotifyContext
\* leaves Run, any other process ends.
Sigterm(st) == IF st \in {"running", "stopping"} THEN "stopping" ELSE "none"

\* stopWatcher: proc.Signal(syscall.SIGTERM)
SendSigterm ==
    /\ cli.at = "signal"
    /\ cli' = [cli EXCEPT !.at = "remove",
                          !.hit = IF procs[cli.pid] = "none" THEN "gone"
                                  ELSE procs[cli.pid]]
    /\ procs' = [procs EXCEPT ![cli.pid] = Sigterm(@)]
    /\ UNCHANGED pidfile
    /\ UNCHANGED <<watcherVars, envVars, storeVars, tableVars, callVars>>

\* stopWatcher: the last os.Remove(PidPath)
RemoveAfterSignal ==
    /\ cli.at = "remove"
    /\ cli' = Finished(cli, IF cli.hit = "gone" THEN "warning" ELSE "stopped")
    /\ pidfile' = NoFile
    /\ UNCHANGED procs
    /\ UNCHANGED <<watcherVars, envVars, storeVars, tableVars, callVars>>

\* A PID file left by a reconciler that was killed, one that holds no number,
\* or none.
InitialPidFiles == {NoFile, Itoa(1), <<>>}

InitGuard ==
    /\ WatcherIdle
    /\ StoreIdle
    /\ OthersIdle
    /\ procs = [p \in Pids |-> "none"]
    /\ pidfile \in InitialPidFiles
    /\ cli = [Invocation("none") EXCEPT !.at = "idle"]

NextGuard ==
    \/ \E p \in Pids : Up(p)
    \/ \E p \in Pids : WritePidFile(p)
    \/ \E p \in Pids : RunReturns(p)
    \/ \E p \in Pids : RemovePidFile(p)
    \/ \E p \in Pids : Killed(p)
    \/ \E p \in Pids : OtherStarts(p)
    \/ Invoke
    \/ ReadPidFile
    \/ Probe
    \/ CheckCmdline
    \/ SendSigterm
    \/ RemoveAfterSignal

SpecGuard == InitGuard /\ [][NextGuard]_vars

\* C21: stopWatcher sends SIGTERM only to the process recorded in the PID
\* file that the zero-signal probe found alive and whose command was read and
\* contains the program's name, and isWatcherRunning reports true only under
\* the same conditions; a process whose command lacks the name or could not
\* be read is rejected: no signal is sent and it is reported not running.
C21_GuardRejectsUnconfirmed ==
    /\ (cli.hit # "none") =>
          /\ cli.pid \in Pids
          /\ cli.alive
          /\ cli.cmd = "contains"
    /\ (cli.f = "status" /\ cli.ret = "running") =>
          /\ cli.pid \in Pids
          /\ cli.alive
          /\ cli.cmd = "contains"
    /\ (cli.cmd \in {"lacks", "unreadable"}) =>
          /\ cli.at = "done"
          /\ cli.hit = "none"
          /\ cli.ret \in {"stopped", "not_ours"}

\* The reconcilers that exist, and the one the PID file names.
Reconcilers == {p \in Pids : Reconciler(procs[p])}

PidFileOwned ==
    \/ pidfile = NoFile
    \/ /\ AtoiOK(pidfile)
       /\ AtoiVal(pidfile) \in Reconcilers

\* C22: across all interleavings of up invocations, reconciler shutdowns and
\* down invocations at most one reconciler runs at a time; the PID file, when
\* it exists, holds the identifier of the running reconciler (a step other
\* than the death of a process never makes it name anything else); and no
\* reconciler that starts or exits overwrites or removes the PID file of
\* another reconciler that is running.
C22_PidFileOwnership ==
    /\ [](Cardinality(Reconcilers) <= 1)
    /\ [][ (PidFileOwned /\ ~PidFileOwned') =>
              \E p \in Pids : procs[p] # "none" /\ procs'[p] = "none" ]_vars
    /\ [][ \A p \in Pids :
              (/\ pidfile = Itoa(p)
               /\ procs[p] = "running"
               /\ procs'[p] = "running"
               /\ pidfile' # pidfile) =>
                  ~\E q \in Pids \ {p} :
                       Reconciler(procs[q]) /\ procs'[q] # procs[q] ]_vars

----------------------------------------------------------------------------
(* Further properties of the reconciler *)

\* reloadRoutes returned an error before it reached ReloadCaddy.
FailedBeforeReload ==
    ev.rl \in {"render_failed", "write_failed", "check_failed", "up_failed",
               "cancelled"}

\* C23: in every execution of reloadRoutes the reload command is dispatched
\* only after the rendering of the current table was installed by rename, and
\* only if the proxy was seen running or was brought up successfully in that
\* execution; when the render, the write, the is-running check or the proxy
\* start fails, or the post-start wait is cancelled, no reload is dispatched.
C23_ReloadAfterInstall ==
    /\ [][ (ev'.reloads > ev.reloads) =>
              /\ pc = "reload"
              /\ ev'.seq = ev.seq
              /\ ev'.reloads = ev.reloads + 1
              /\ {"render", "install"} \subseteq ev.fx
              /\ caddyfile \in Renderings(routes) ]_vars
    /\ [][ (pc' = "reload" /\ pc # "reload") =>
              /\ "install" \in ev.fx
              /\ ev'.seq = ev.seq
              /\ \/ pc = "check" /\ gw # "absent"
                 \/ pc = "up" /\ "up" \in ev'.fx /\ gw' # "absent" ]_vars
    /\ [](FailedBeforeReload =>
              /\ ev.reloads = 0
              /\ "reload" \notin ev.fx
              /\ pc # "reload")
    /\ []((pc \in {"write", "check", "up", "reload"}) => ev.reloads = 0)

\* The proxy was absent, was brought up, and the reload was then dispatched
\* for the installed configuration.
C23_Witness ==
    /\ ev.rl = "ok"
    /\ ev.reloads = 1
    /\ {"install", "up", "reload"} \subseteq ev.fx
    /\ caddyfile \in Renderings(routes)

\* The startup scan and its reloadRoutes are still under way.
Scanning ==
    \/ pc = "scan"
    \/ ev.action = "scan" /\ pc \in {"write", "check", "up", "reload"}

\* The containers the runtime lists as running that satisfy the entry
\* predicate.
Routable == {c \in Containers : cstate[c] = "up" /\ EntryPredicate(c, registry, TRUE)}

\* C24: when the scan finishes the table holds a route for every container
\* listed as running that satisfies the entry predicate and none for the
\* proxy container, whose events the handlers skip as well; render, install
\* and reload are performed once after the whole scan exactly when the table
\* is then non-empty; the event stream is subscribed to only after the scan
\* has finished.
C24_StartupScan ==
    /\ [][ (pc = "scan") =>
              /\ DOMAIN routes' \subseteq Routable
              /\ (ev'.out = "scanned") => DOMAIN routes' = Routable
              /\ \A c \in DOMAIN routes' : routes'[c] = RouteOf(c, Load(registry))
              /\ (pc' = "write") <=> (routes' # EmptyTable)
              /\ (pc' # "write") => pc' = "select"
              /\ caddyfile' = caddyfile
              /\ ev'.reloads = 0 ]_vars
    /\ [](/\ GatewayID \notin DOMAIN routes
          /\ (ev.id = GatewayID) => ev.out = "own_container" /\ ev.fx = {}
          /\ (ev.action = "scan") =>
                /\ ev.reloads <= 1
                /\ ("render" \in ev.fx) => "table" \in ev.fx
                /\ ("render" \notin ev.fx) => caddyfile = StaleCaddyfile
          /\ Scanning => ~subscribed /\ queue = <<>>)

\* The scan found two running containers, routed the one that satisfies the
\* entry predicate, installed and reloaded once, and only then subscribed.
C24_Witness ==
    /\ ev.action = "scan"
    /\ ev.out = "scanned"
    /\ ev.rl = "ok"
    /\ ev.reloads = 1
    /\ DOMAIN routes = {"c1"}
    /\ cstate["c4"] = "up"
    /\ subscribed

\* The handling of a start event ended on a failed RPC or file read.
StartRPCFailed(out) == out \in {"load_error", "inspect_error", "attach_error"}

\* C25: the entry predicate of a start event is evaluated against the
\* registry as it is when the event is handled: the container is routed
\* exactly when the predicate holds on the current registry (with the route
\* the current registry gives it), so a container of a project adopted after
\* the reconciler started is routed on its next start, and one that starts
\* after its project was unadopted is not.
C25_RegistryAtEvent ==
    [][ (ev'.seq # ev.seq /\ ev'.action = "start" /\ ev'.id # GatewayID
            /\ ~StartRPCFailed(ev'.out)) =>
           /\ (ev'.out = "routed") <=> EntryPredicate(ev'.id, registry, TRUE)
           /\ (ev'.out = "routed") =>
                 /\ ev'.id \in DOMAIN routes'
                 /\ routes'[ev'.id] = RouteOf(ev'.id, Load(registry))
           /\ (ev'.out = "not_adopted") =>
                 /\ Info(ev'.id).Project \notin Load(registry)
                 /\ routes' = routes ]_vars

\* A container of the project adopted after startup was routed by its start
\* event, was removed when it died, and after the project was unadopted its
\* next start was not routed.
C25_Witness ==
    /\ ev.id = "c3"
    /\ ev.action = "start"
    /\ ev.out = "not_adopted"
    /\ last["c3"] = "stop"
    /\ "late" \notin Load(StartupRegistry)

\* The event at the head of the queue is one that must not change the table:
\* a stop or die of a container without an entry, a start that fails the
\* entry predicate, or any event of the proxy container.
HeadChangesNothing ==
    /\ queue # <<>>
    /\ LET e == Head(queue)
       IN  \/ e.id = GatewayID
           \/ e.action \in {"stop", "die"} /\ e.id \notin DOMAIN routes
           \/ e.action = "start" /\ ~EntryPredicate(e.id, registry, TRUE)

\* C26: handling an event that does not change the table has no side effect:
\* the table, the configuration file, the network and the proxy stay as they
\* are, no render, install, proxy start or reload follows, and the loop is
\* back at its select.
C26_NoEffectEvents ==
    [][ (ev'.seq # ev.seq /\ HeadChangesNothing) =>
           /\ routes' = routes
           /\ caddyfile' = caddyfile
           /\ attached' = attached
           /\ gw' = gw
           /\ pc' = "select"
           /\ ev'.seq = Head(queue).seq
           /\ ev'.out \in {"own_container", "not_routed", "no_label",
                           "not_adopted", "no_port", "bad_hostname", "bad_name",
                           "load_error", "inspect_error"}
           /\ ev'.fx = {}
           /\ ev'.ups = 0
           /\ ev'.reloads = 0 ]_vars

\* The stop event that follows the die event of a routed container found no
\* entry and left the installed configuration as the die event wrote it.
C26_Witness ==
    /\ ev.action = "stop"
    /\ ev.out = "not_routed"
    /\ last[ev.id] = "stop"
    /\ ev.fx = {}
    /\ pc = "select"
    /\ caddyfile \in Renderings(routes)
    /\ caddyfile # StaleCaddyfile

\* The reconciler has finished its startup scan and waits for an event.
IdleAfterStartup == pc = "select"

\* Nothing has changed the table since the latest handling, and that
\* handling had no failed render or install: it changed the table itself, or
\* it was the startup scan.
CleanSinceLastChange ==
    /\ ev.rl \notin {"render_failed", "write_failed"}
    /\ "table" \in ev.fx \/ ev.action = "scan"

\* C27: whenever the reconciler is idle after startup and no render or
\* install has failed since the table last changed, the configuration file
\* holds the rendering of the current table, whatever the file held when the
\* reconciler started.
C27_ConfigMatchesTable ==
    (IdleAfterStartup /\ CleanSinceLastChange) => caddyfile \in Renderings(routes)

----------------------------------------------------------------------------
(* Progress of the project store *)

\* The steps of invocation p once it has been started.
StoreProgress(p) ==
    \/ Flock(p)
    \/ LoadConfig(p)
    \/ Modify(p)
    \/ CreateTemp(p)
    \/ WriteTemp(p)
    \/ ChmodTemp(p)
    \/ CloseTemp(p)
    \/ RenameTemp(p)
    \/ RemoveTemp(p)
    \/ Unlock(p)

\* Every started invocation keeps being scheduled by the operating system,
\* and a blocked Flock returns once the lock is free.
SpecStoreLive ==
    /\ InitStore
    /\ [][NextStore]_vars
    /\ \A p \in 1..NumProcs : WF_vars(StoreProgress(p))

\* C28: every LoadAndModify that acquired the lock returns with the lock
\* released, on success and after a failed load, modifier or save; the lock
\* is held only by an invocation still between Flock and its deferred
\* release; so every started invocation eventually returns, every holder
\* eventually gives the lock up, and in the end the lock is free with no
\* invocation under way, however the invocations compete.
C28_LockReleased ==
    /\ [](\A p \in 1..NumProcs : (spc[p] = "done") => lockHolder # p)
    /\ []((lockHolder # 0) => spc[lockHolder] \in UnderLock)
    /\ \A p \in 1..NumProcs : (spc[p] = "flock") ~> (spc[p] = "done")
    /\ \A p \in 1..NumProcs : (lockHolder = p) ~> (lockHolder # p)
    /\ <>[](lockHolder = 0 /\ \A p \in 1..NumProcs : spc[p] \in {"idle", "done"})

\* One invocation failed after it had loaded the registry under the lock,
\* and the other one holds the lock now.
C28_Witness ==
    /\ spc[1] = "done"
    /\ result[1] = "error"
    /\ cfg[1] # {}
    /\ lockHolder = 2
    /\ spc[2] \in UnderLock

----------------------------------------------------------------------------
(* Progress of the reconciler *)

\* The steps of the goroutine that executes Run.
ReconcilerStep ==
    \/ ScanExisting
    \/ Subscribe
    \/ SkipOwnContainer
    \/ HandleContainerStart
    \/ HandleContainerStop
    \/ WriteCaddyfile
    \/ CheckGateway
    \/ GatewayUp
    \/ ReloadCaddy
    \/ RunCancelled
    \/ RunStreamError

\* A host on which no container runs when the reconciler starts: every
\* container that runs later was started after ContainerList returned.
InitQuiet ==
    /\ Init
    /\ \A c \in Containers : cstate[c] # "up"

\* The goroutine of Run keeps being scheduled; the runtime, the proxy
\* container and the other processes are free to act or not.
SpecLive ==
    /\ InitQuiet
    /\ [][Next]_vars
    /\ WF_vars(ReconcilerStep)

\* Container c runs, satisfies the entry predicate, and cli.Events has not
\* been called yet.
StartedBeforeSubscription(c) ==
    /\ Running
    /\ ~subscribed
    /\ cstate[c] = "up"
    /\ EntryPredicate(c, registry, TRUE)

\* What ends the obligation to route c: it is routed, it stopped running,
\* the reconciler was cancelled or lost its event stream, the registry no
\* longer lists its project, or its start event was handled and an RPC of
\* the handler failed.
RoutedOrExcused(c) ==
    \/ c \in DOMAIN routes
    \/ cstate[c] # "up"
    \/ cancelled
    \/ streamErr
    \/ pc = "returned"
    \/ ~EntryPredicate(c, registry, TRUE)
    \/ (ev.id = c /\ ev.action = "start" /\ ev.seq > 0)

\* C29: a container satisfying the entry predicate that starts after the
\* startup scan listed the running containers and before the event stream
\* is subscribed is eventually inserted into the route table, provided it
\* keeps running and the reconciler is neither cancelled nor cut off from
\* the runtime.
C29_NoStartLost ==
    \A c \in Containers : StartedBeforeSubscription(c) ~> RoutedOrExcused(c)

\* A container started in the window is running and unrouted while the
\* reconciler waits, subscribed, on an empty channel.
LostStart ==
    \E c \in Containers :
        /\ LoopReady
        /\ queue = <<>>
        /\ emitted > 0
        /\ ~cancelled /\ ~streamErr
        /\ cstate[c] = "up"
        /\ EntryPredicate(c, registry, TRUE)
        /\ last[c] = "none"
        /\ c \notin DOMAIN routes

----------------------------------------------------------------------------
(* Stripped copies of the compose files (package start, compose.go) *)

MaxFiles == 3       \* compose files in a list handed to GenerateStrippedFiles

strippedPrefix == ".caddy-atc-compose"

\* strippedFilename(index, total): index counts from 0.
strippedFilename(index, total) ==
    IF total = 1 THEN strippedPrefix \o ".yml"
    ELSE IF index = 0 THEN strippedPrefix \o ".yml"
    ELSE strippedPrefix \o ".override.yml"

\* A path is a directory and a file name: filepath.Dir and filepath.Join.
ComposeDirs  == {"/p", "/p/dev"}
ComposeNames == {"docker-compose.yml", "docker-compose.override.yml", "compose.prod.yml"}
StrippedNames == {strippedPrefix \o ".yml", strippedPrefix \o ".override.yml"}
Dir(path)  == path[1]
Join(dir, name) == <<dir, name>>
ComposePaths == ComposeDirs \X ComposeNames
AllPaths == ComposeDirs \X (ComposeNames \cup StrippedNames
                \cup {strippedFilename(i, MaxFiles) : i \in 0..(MaxFiles - 1)})

\* Two project trees: one with three compose files per directory and no
\* stripped copy yet; one with a file the parser rejects, a file that is
\* missing, and stripped copies left by an earlier run.
FreshTree ==
    [p \in AllPaths |->
        CASE p = <<"/p", "docker-compose.yml">>              -> DocBasic
          [] p = <<"/p", "docker-compose.override.yml">>     -> DocEncoded
          [] p = <<"/p", "compose.prod.yml">>                -> DocFull
          [] p = <<"/p/dev", "docker-compose.yml">>          -> DocTwice
          [] p = <<"/p/dev", "docker-compose.override.yml">> -> DocBasic
          [] p = <<"/p/dev", "compose.prod.yml">>            -> DocNoServices
          [] OTHER -> NoFile]

UsedTree ==
    [p \in AllPaths |->
        CASE p = <<"/p", "docker-compose.yml">>              -> DocBasic
          [] p = <<"/p", "docker-compose.override.yml">>     -> DocBroken
          [] p = <<"/p", "compose.prod.yml">>                -> DocShared
          [] p = <<"/p/dev", "docker-compose.yml">>          -> DocFull
          [] p = <<"/p/dev", "docker-compose.override.yml">> -> NoFile
          [] p = <<"/p/dev", "compose.prod.yml">>            -> DocEncoded
          [] p[2] \in StrippedNames                          -> DocNoServices
          [] OTHER -> NoFile]

Trees == {FreshTree, UsedTree}

\* The lists of originals: up to MaxFiles different files.
OriginalLists ==
    {s \in UNION {[1..n -> ComposePaths] : n \in 1..MaxFiles} :
        \A i, j \in 1..Len(s) : i # j => s[i] # s[j]}

\* GenerateStrippedFiles is entered: nothing read or written yet.
CallGenerate ==
    /\ inp.f = "GenerateStrippedFiles"
    /\ outp.f = "none"
    /\ outp' = [f |-> inp.f, i |-> 0, stripped |-> <<>>, fs |-> inp.fs,
                err |-> FALSE, done |-> FALSE]
    /\ UNCHANGED <<inp, watcherVars, envVars, storeVars, tableVars, guardVars>>

\* One iteration of the loop: ReadFile, StripPorts, WriteFile, append.  An
\* error of any of the three returns nil and the error.
StripOne ==
    /\ outp.f = "GenerateStrippedFiles"
    /\ ~outp.done
    /\ outp.i < Len(inp.originals)
    /\ LET orig    == inp.originals[outp.i + 1]
           data    == outp.fs[orig]
           outPath == Join(Dir(orig), strippedFilename(outp.i, Len(inp.originals)))
           failed  == [outp EXCEPT !.stripped = <<>>, !.err = TRUE, !.done = TRUE]
       IN  IF data = NoFile THEN outp' = failed
           ELSE \E r \in {StripPorts(data, inp.keepPorts)} :
                   IF r.err THEN outp' = failed
                   ELSE \E ok \in BOOLEAN :
                           outp' = IF ~ok THEN failed
                                   ELSE [outp EXCEPT !.i = outp.i + 1,
                                                     !.fs[outPath] = r.out,
                                                     !.stripped = Append(outp.stripped, outPath)]
    /\ UNCHANGED <<inp, watcherVars, envVars, storeVars, tableVars, guardVars>>

\* The loop is over: return stripped, nil.
ReturnStripped ==
    /\ outp.f = "GenerateStrippedFiles"
    /\ ~outp.done
    /\ outp.i = Len(inp.originals)
    /\ outp' = [outp EXCEPT !.done = TRUE]
    /\ UNCHANGED <<inp, watcherVars, envVars, storeVars, tableVars, guardVars>>

InitCompose ==
    /\ WatcherIdle
    /\ StoreIdle
    /\ GuardIdle
    /\ tpc = <<>>
    /\ mu = 0
    /\ tloc = <<>>
    /\ tret = <<>>
    /\ tseen = <<>>
    /\ tcalls = 0
    /\ inp \in {[f |-> "GenerateStrippedFiles", originals |-> o, keepPorts |-> K, fs |-> t] :
                   o \in OriginalLists, K \in KeepSets, t \in Trees}
    /\ outp = [f |-> "none"]

NextCompose == CallGenerate \/ StripOne \/ ReturnStripped

SpecCompose == InitCompose /\ [][NextCompose]_vars

\* GenerateStrippedFiles returned its paths and no error.
Generated == outp.f = "GenerateStrippedFiles" /\ outp.done /\ ~outp.err

\* The file at the i-th returned path holds the stripped i-th original.
HoldsStripped(i) ==
    outp.fs[outp.stripped[i]] = StripPorts(inp.fs[inp.originals[i]], inp.keepPorts).out

\* C30: when GenerateStrippedFiles returns without error, it returns as many
\* paths as it was given originals, in their order, and the file at the
\* i-th path holds the stripped content of the i-th original, for lists of
\* one, two and more originals.
C30_OneStrippedFilePerOriginal ==
    Generated =>
        /\ Len(outp.stripped) = Len(inp.originals)
        /\ \A i \in 1..Len(inp.originals) :
              /\ Dir(outp.stripped[i]) = Dir(inp.originals[i])
              /\ HoldsStripped(i)

\* The same for a single file and for base plus override.
UpToOverride == Len(inp.originals) <= 2 => C30_OneStrippedFilePerOriginal

\* The same for every list whose files after the first lie in different
\* directories.
ApartAfterFirst ==
    (\A i, j \in 2..Len(inp.originals) :
        i # j => Dir(inp.originals[i]) # Dir(inp.originals[j]))
    => C30_OneStrippedFilePerOriginal

====
